---- MODULE Spec2Model ----
(***************************************************************************)
(* A model of the crowd anomaly detection backend: the DeepSORT track      *)
(* manager (backend/tracking/deepsort.py), the four anomaly detectors      *)
(* (backend/anomaly/), and the live / upload sessions that drive them      *)
(* (backend/routes/stream.py, backend/routes/analyze.py, backend/main.py). *)
(*                                                                         *)
(* Conventions                                                             *)
(*  - Python lists are sequences; Python's 0-based indices are 1-based     *)
(*    here.  A bounding box [x1, y1, x2, y2] is the tuple <<x1,y1,x2,y2>>. *)
(*  - The Kalman filter itself (filterpy, an external library) is not      *)
(*    modelled: whenever the code reads the filter's state (predict(),     *)
(*    get_state()) the box read is an input, drawn from Predictions: any   *)
(*    box of Boxes, or a box holding a NaN, or a box holding an infinity   *)
(*    and no NaN.                                                          *)
(*  - An IOU is kept in thousandths, rounded down (IouScale).              *)
(***************************************************************************)
EXTENDS Integers, Sequences, FiniteSets, TLC

VARIABLES
    count,          \* KalmanTracker.count, the class-level id counter
    max_age,        \* DeepSORT.max_age
    min_hits,       \* DeepSORT.min_hits
    trackers,       \* DeepSORT.trackers: the live KalmanTracker objects
    frame_count,    \* DeepSORT.frame_count
    issued,         \* history: every id ever given to a KalmanTracker, in order
    overcrowding,   \* the OvercrowdingDetector: threshold, alert_active
    oc_calls,       \* history: what each detect_overcrowding call returned
    loitering,      \* the LoiteringDetector: thresholds, track_history, loitering_tracks
    lt_fed,         \* history: per track, the update_track / detect_loitering calls
    zone_violation, \* the ZoneViolationDetector: zone_polygons, violating_tracks
    zv_last,        \* history: track id -> is_violation of its last evaluation
    _alert_last_ts, \* stream.py: (event_type, track_id) -> time of the last alert sent
    now,            \* the wall clock, in seconds
    alerts,         \* history: the alert messages handed to manager.broadcast
    attempts,       \* history: the number of send_anomaly_alert calls
    suspicious,     \* the SuspiciousActivityDetector
    live_task,      \* stream.py: None or the session of the live task
    live_source,    \* stream.py: None or the source of the live stream
    last_live_jpeg, \* stream.py: None or the (session, frame) of the preview
    tasks,          \* the sessions started so far, live tasks and uploads
    obs,            \* history: what the last server step did
    active_connections, \* ConnectionManager.active_connections, a set
    accepted,       \* history: every websocket ever handed to manager.connect
    broadcast,      \* the broadcast call in progress, or the last one
    out             \* what the last operation returned / did

tracker_vars == <<count, max_age, min_hits, trackers, frame_count, issued>>

overcrowding_vars == <<overcrowding, oc_calls>>

loitering_vars == <<loitering, lt_fed>>

zone_vars == <<zone_violation, zv_last>>

alert_vars == <<_alert_last_ts, now, alerts, attempts>>

server_vars == <<suspicious, live_task, live_source, last_live_jpeg, tasks, obs>>

manager_vars == <<active_connections, accepted, broadcast>>

vars == <<tracker_vars, overcrowding_vars, loitering_vars, zone_vars, alert_vars,
          server_vars, manager_vars, out>>

----------------------------------------------------------------------------
(* Bounds of the model *)

MaxFrames == 5      \* DeepSORT.update calls explored
MaxIds == 2         \* KalmanTracker objects ever constructed

(* Input domains *)

DetCounts == 0..2       \* detections per frame
MaxAges == 1..2         \* the max_age a DeepSORT is constructed with
MinHits == 1..2         \* the min_hits a DeepSORT is constructed with

\* Two boxes that do not overlap; a box overlaps itself with IOU just below 1.
Boxes == { <<0, 0, 2, 2>>, <<4, 4, 6, 6>> }

Predictions ==
    [kind : {"fin"}, box : Boxes]
        \cup { [kind |-> "nan", box |-> <<0, 0, 0, 0>>],
               [kind |-> "inf", box |-> <<0, 0, 0, 0>>] }

DetLists == UNION { [1..n -> Boxes] : n \in DetCounts }

----------------------------------------------------------------------------
(* Helpers *)

Max(a, b) == IF a >= b THEN a ELSE b

Min(a, b) == IF a <= b THEN a ELSE b

\* A function on 1..n as a tuple (TLC then holds its values, not its rule).
Tup(f) == f \o << >>

\* The elements of a finite set of integers, ascending.
AscSeq(S) ==
    Tup([k \in 1..Cardinality(S) |->
            CHOOSE x \in S : Cardinality({y \in S : y < x}) = k - 1])

RECURSIVE SumOver(_, _)
SumOver(f, S) ==
    IF S = {} THEN 0
    ELSE LET x == CHOOSE y \in S : TRUE IN f[x] + SumOver(f, S \ {x})

Ids(ts) == {ts[k].id : k \in DOMAIN ts}

IdSeq(ts) == Tup([k \in DOMAIN ts |-> ts[k].id])

----------------------------------------------------------------------------
(* KalmanTracker *)

\* KalmanTracker.count += 1
KalmanTracker_count_bad(c) == c

KalmanTracker_count_incr(c) == c + 1

\* a tracker constructed as if its first detection were already a hit
KalmanTracker_init_hit(c) ==
    [id |-> c, time_since_update |-> 0, hits |-> 1, hit_streak |-> 1, age |-> 0]

\* KalmanTracker.__init__ run when KalmanTracker.count = c
KalmanTracker_init(c) ==
    [id |-> c, time_since_update |-> 0, hits |-> 0, hit_streak |-> 0, age |-> 0]

KalmanTracker_update(t) ==
    [t EXCEPT !.time_since_update = 0,
              !.hits = @ + 1,
              !.hit_streak = @ + 1]

\* predict() without "if self.time_since_update > 0: self.hit_streak = 0"
KalmanTracker_predict_keep(t) ==
    [t EXCEPT !.age = @ + 1,
              !.time_since_update = @ + 1]

KalmanTracker_predict(t) ==
    [t EXCEPT !.age = @ + 1,
              !.hit_streak = IF t.time_since_update > 0 THEN 0 ELSE @,
              !.time_since_update = @ + 1]

----------------------------------------------------------------------------
(* DeepSORT: IOU and association *)

IouScale == 1000

iou_threshold == 300    \* 0.3, in thousandths

\* IouScale * inter / union, rounded down: the quotient without the 1e-6
IouQuotient_exact(inter_area, union_area) ==
    IF union_area = 0 THEN 0
    ELSE (IouScale * inter_area) \div union_area

\* floor(IouScale * inter / (union + 1e-6)) for integer areas 0 <= inter <= union:
\* the 1e-6 keeps an exact quotient just below its value.
IouQuotient(inter_area, union_area) ==
    IF union_area = 0 THEN 0
    ELSE LET q == (IouScale * inter_area) \div union_area
             r == (IouScale * inter_area) % union_area
         IN  IF r = 0 /\ inter_area > 0 THEN q - 1 ELSE q

_iou(bbox1, bbox2) ==
    LET x1 == Max(bbox1[1], bbox2[1])
        y1 == Max(bbox1[2], bbox2[2])
        x2 == Min(bbox1[3], bbox2[3])
        y2 == Min(bbox1[4], bbox2[4])
        inter_area == Max(0, x2 - x1) * Max(0, y2 - y1)
        bbox1_area == (bbox1[3] - bbox1[1]) * (bbox1[4] - bbox1[2])
        bbox2_area == (bbox2[3] - bbox2[1]) * (bbox2[4] - bbox2[2])
        union_area == bbox1_area + bbox2_area - inter_area
    IN  IouQuotient(inter_area, union_area)

\* a = (iou_matrix > iou_threshold): the positions of the set bits
SetBits(iou, D, T) ==
    {p \in (1..D) \X (1..T) : iou[p[1]][p[2]] > iou_threshold}

\* a.sum(1).max() == 1 and a.sum(0).max() == 1
FastPath(a, D, T) ==
    /\ \A d \in 1..D : Cardinality({p \in a : p[1] = d}) <= 1
    /\ \E d \in 1..D : Cardinality({p \in a : p[1] = d}) = 1
    /\ \A t \in 1..T : Cardinality({p \in a : p[2] = t}) <= 1
    /\ \E t \in 1..T : Cardinality({p \in a : p[2] = t}) = 1

Injections(n, m) ==
    {g \in [1..n -> 1..m] : \A i, j \in 1..n : i # j => g[i] # g[j]}

\* Every complete assignment of the smaller side of a D x T matrix, as a set
\* of <<detection, tracker>> pairs (tabulated once).
Assignments ==
    [D \in DetCounts, T \in 0..MaxIds |->
        IF D <= T
        THEN { {<<d, f[d]>> : d \in 1..D} : f \in Injections(D, T) }
        ELSE { {<<f[t], t>> : t \in 1..T} : f \in Injections(T, D) }]

TotalIou(iou, S) ==
    SumOver([p \in S |-> iou[p[1]][p[2]]], S)

MaxOf(S) == CHOOSE b \in S : \A x \in S : x <= b

\* the first components of the pairs whose second component is `best`
WithTotal(totals, best) == {p[1] : p \in {q \in totals : q[2] = best}}

Optimal(totals) == WithTotal(totals, MaxOf({p[2] : p \in totals}))

\* scipy's linear_sum_assignment(-iou_matrix): the assignments of least cost;
\* which of several optimal ones it returns is not specified.
_linear_assignment(iou, D, T) ==
    Optimal({<<S, TotalIou(iou, S)>> : S \in Assignments[D, T]})

\* rows of matched_indices, ordered by detection index
PairSeq(S) ==
    Tup([k \in 1..Cardinality(S) |->
            CHOOSE p \in S : Cardinality({q \in S : q[1] < p[1]}) = k - 1])

MatchedIndicesOf(iou, a, D, T) ==
    IF FastPath(a, D, T)
    THEN {PairSeq(a)}
    ELSE {PairSeq(S) : S \in _linear_assignment(iou, D, T)}

\* the candidate matched_indices of _associate_detections_to_trackers
MatchedIndices(iou, D, T) ==
    IF Min(D, T) > 0
    THEN MatchedIndicesOf(iou, SetBits(iou, D, T), D, T)
    ELSE {<< >>}

\* the three outputs, given the rows rejected (low) and kept (high) by the
\* low-IOU filter
Outputs(matched_indices, low, high, D, T) ==
    [matches |-> high,
     unmatched_detections |->
         AscSeq((1..D) \ {matched_indices[k][1] : k \in DOMAIN matched_indices})
             \o [k \in DOMAIN low |-> low[k][1]],
     unmatched_trackers |->
         AscSeq((1..T) \ {matched_indices[k][2] : k \in DOMAIN matched_indices})
             \o [k \in DOMAIN low |-> low[k][2]]]

\* the association without its low-IOU filter
AssociateWith_unfiltered(iou, D, T, matched_indices) ==
    Outputs(matched_indices, << >>, matched_indices, D, T)

\* the association whose filter leaves a rejected pair among the matches
AssociateWith_both(iou, D, T, matched_indices) ==
    Outputs(matched_indices,
            SelectSeq(matched_indices, LAMBDA m : iou[m[1]][m[2]] < iou_threshold),
            matched_indices,
            D, T)

\* "Filter out matched with low IOU"
AssociateWith(iou, D, T, matched_indices) ==
    Outputs(matched_indices,
            SelectSeq(matched_indices, LAMBDA m : iou[m[1]][m[2]] < iou_threshold),
            SelectSeq(matched_indices, LAMBDA m : ~(iou[m[1]][m[2]] < iou_threshold)),
            D, T)

\* the possible results of _associate_detections_to_trackers for an IOU matrix
_associate_detections_to_trackers(iou, D, T) ==
    IF T = 0
    THEN {[matches |-> << >>,
           unmatched_detections |-> [k \in 1..D |-> k],
           unmatched_trackers |-> << >>]}
    ELSE {AssociateWith(iou, D, T, mi) : mi \in MatchedIndices(iou, D, T)}

----------------------------------------------------------------------------
(* DeepSORT.update *)

Reported_stale(ts, fc, mh) ==
    SelectSeq(ts, LAMBDA t : t.time_since_update <= 1
                             /\ (t.hit_streak >= mh \/ fc <= mh))

\* the tracks of `ts` that update returns
Reported(ts, fc, mh) ==
    SelectSeq(ts, LAMBDA t : t.time_since_update < 1
                             /\ (t.hit_streak >= mh \/ fc <= mh))

Prune_late(ts, ma) ==
    SelectSeq(ts, LAMBDA t : t.time_since_update <= ma)

\* "Remove dead tracklets"
Prune(ts, ma) ==
    SelectSeq(ts, LAMBDA t : t.time_since_update < ma)

\* a sequence without the entries at the indices of `drop`
Without(seq, drop) ==
    Tup([k \in 1..(Len(seq) - Cardinality(drop)) |->
            seq[CHOOSE i \in (1..Len(seq)) \ drop :
                  Cardinality({j \in (1..Len(seq)) \ drop : j < i}) = k - 1]])

\* predict() on every tracker, then pop the trackers whose prediction holds a NaN
PredictAndPop(ts, pos) ==
    Without(Tup([t \in DOMAIN ts |-> KalmanTracker_predict(ts[t])]),
            {t \in DOMAIN ts : pos[t].kind = "nan"})

\* np.ma.compress_rows(np.ma.masked_invalid(trks)): the rows left are the
\* predictions that hold neither a NaN nor an infinity
BoxesOf(rows) == Tup([k \in DOMAIN rows |-> rows[k].box])

CompressRows(pos) ==
    BoxesOf(Without(pos, {t \in DOMAIN pos : pos[t].kind # "fin"}))

IouMatrix(detections, trks) ==
    Tup([d \in DOMAIN detections |->
            Tup([t \in DOMAIN trks |-> _iou(detections[d], trks[t])])])

\* the trackers constructed for n unmatched detections, from count = c
RECURSIVE NewTrackers(_, _)
NewTrackers(c, n) ==
    IF n = 0 THEN << >>
    ELSE <<KalmanTracker_init(c)>> \o NewTrackers(KalmanTracker_count_incr(c), n - 1)

\* KalmanTracker.count after n constructions
RECURSIVE CountAfter(_, _)
CountAfter(c, n) ==
    IF n = 0 THEN c ELSE CountAfter(KalmanTracker_count_incr(c), n - 1)

\* update() on the matched trackers, then a new tracker per unmatched detection
UpdateAndCreate(popped, hit, nnew, c) ==
    Tup([k \in DOMAIN popped |->
            IF k \in hit THEN KalmanTracker_update(popped[k]) ELSE popped[k]])
    \o NewTrackers(c, nnew)

\* the rest of update once association has returned r
Finish(popped, dropped, r, hit, nnew, all) ==
    /\ count + nnew <= MaxIds
    /\ frame_count' = frame_count + 1
    /\ count' = CountAfter(count, nnew)
    /\ issued' = issued \o IdSeq(SubSeq(all, Len(popped) + 1, Len(all)))
    /\ trackers' = Prune(all, max_age)
    /\ out' = [op |-> "update",
               ret |-> IdSeq(Reported(all, frame_count + 1, min_hits)),
               dropped |-> dropped,
               matched |-> {popped[k].id : k \in hit},
               created |-> IdSeq(SubSeq(all, Len(popped) + 1, Len(all))),
               removed |-> Ids(all) \ Ids(Prune(all, max_age))]

Associated(popped, dropped, r, hit, nnew) ==
    Finish(popped, dropped, r, hit, nnew,
           UpdateAndCreate(popped, hit, nnew, count))

Predicted(detections, popped, dropped, trks) ==
    \E r \in _associate_detections_to_trackers(
                 IouMatrix(detections, trks), Len(detections), Len(trks)) :
        Associated(popped, dropped, r,
                   {r.matches[j][2] : j \in DOMAIN r.matches},
                   Len(r.unmatched_detections))

\* detections: this frame's boxes; pos[t]: what predict() returns for tracker t
DeepSORT_update(detections, pos) ==
    Predicted(detections,
              PredictAndPop(trackers, pos),
              {trackers[t].id : t \in {u \in DOMAIN trackers : pos[u].kind = "nan"}},
              CompressRows(pos))

Update ==
    /\ frame_count < MaxFrames
    /\ \E detections \in DetLists :
         \E pos \in [1..Len(trackers) -> Predictions] :
            DeepSORT_update(Tup(detections), Tup(pos))
    /\ UNCHANGED <<max_age, min_hits>>
    /\ UNCHANGED <<manager_vars, server_vars, overcrowding_vars, loitering_vars, zone_vars, alert_vars>>

----------------------------------------------------------------------------
(* backend/anomaly/overcrowding.py *)

\* An optional value: None, or Some(v)
None == << >>

Some(v) == <<v>>

Val(opt) == opt[1]

OvercrowdingDetector_init(threshold) ==
    [threshold |-> threshold, alert_active |-> FALSE]

detect_overcrowding_level(self, cnt, threshold) ==
    LET active_threshold == IF threshold # None THEN Val(threshold) ELSE self.threshold
        is_overcrowded == cnt > active_threshold
    IN  [is_overcrowded |-> is_overcrowded,
         current_count |-> cnt,
         threshold |-> active_threshold,
         alert_triggered |-> is_overcrowded]

\* what detect_overcrowding(cnt, threshold) returns; the call then stores
\* is_overcrowded in self.alert_active
detect_overcrowding(self, cnt, threshold) ==
    LET active_threshold == IF threshold # None THEN Val(threshold) ELSE self.threshold
        is_overcrowded == cnt > active_threshold
    IN  [is_overcrowded |-> is_overcrowded,
         current_count |-> cnt,
         threshold |-> active_threshold,
         alert_triggered |-> is_overcrowded /\ ~self.alert_active]

set_threshold(self, threshold) == [self EXCEPT !.threshold = threshold]

----------------------------------------------------------------------------
(* backend/anomaly/loitering.py                                             *)
(* track_history maps a track id to the sequence of its <<x, y, frame_num>>. *)
(* Coordinates and pixel_threshold are integers here, so that "the largest  *)
(* distance from the mean position is below pixel_threshold" is decided     *)
(* exactly, on the squares scaled by the number of positions.               *)

LoiteringDetector_init(pixel_threshold, time_threshold, fps) ==
    [pixel_threshold |-> pixel_threshold,
     time_threshold |-> time_threshold,
     fps |-> fps,
     frame_threshold |-> time_threshold * fps,
     track_history |-> << >>,
     loitering_tracks |-> {}]

\* self.track_history.get(track_id, [])
HistoryOf(self, track_id) ==
    IF track_id \in DOMAIN self.track_history
    THEN self.track_history[track_id] ELSE << >>

\* positions[:n], the oldest entries instead of the most recent
FirstN(positions, n) ==
    IF n >= Len(positions) THEN positions ELSE SubSeq(positions, 1, n)

\* Python's positions[-n:]
LastN(positions, n) ==
    IF n = 0 \/ n >= Len(positions) THEN positions
    ELSE SubSeq(positions, Len(positions) - n + 1, Len(positions))

update_track(self, track_id, center_point, frame_num) ==
    [self EXCEPT !.track_history =
        (track_id :> LastN(Append(HistoryOf(self, track_id),
                                  <<center_point[1], center_point[2], frame_num>>),
                           self.frame_threshold + 100)) @@ @]

RECURSIVE SumCoord(_, _, _)
SumCoord(positions, c, k) ==
    IF k = 0 THEN 0 ELSE positions[k][c] + SumCoord(positions, c, k - 1)

Sq(x) == x * x

\* _calculate_movement(positions) < threshold
MovementBelow(positions, threshold) ==
    IF Len(positions) < 2 THEN 0 < threshold
    ELSE /\ threshold > 0
         /\ \E sums \in {<<SumCoord(positions, 1, Len(positions)),
                            SumCoord(positions, 2, Len(positions))>>} :
              \A k \in DOMAIN positions :
                  Sq(Len(positions) * positions[k][1] - sums[1])
                    + Sq(Len(positions) * positions[k][2] - sums[2])
                  < Sq(threshold * Len(positions))

IsLoitering_at_once(self, track_id) ==
    MovementBelow(LastN(HistoryOf(self, track_id), self.frame_threshold),
                  self.pixel_threshold)

\* is_loitering of detect_loitering(track_id)
IsLoitering(self, track_id) ==
    /\ Len(HistoryOf(self, track_id)) >= self.frame_threshold
    /\ MovementBelow(LastN(HistoryOf(self, track_id), self.frame_threshold),
                     self.pixel_threshold)

\* what detect_loitering(track_id) returns
detect_loitering(self, track_id, is_loitering) ==
    [is_loitering |-> is_loitering,
     track_id |-> track_id,
     duration_frames |-> Min(Len(HistoryOf(self, track_id)),
                             IF self.frame_threshold = 0
                             THEN Len(HistoryOf(self, track_id))
                             ELSE self.frame_threshold),
     alert_triggered |-> is_loitering /\ track_id \notin self.loitering_tracks]

\* the detector after detect_loitering(track_id)
detect_loitering_self(self, track_id, is_loitering) ==
    IF Len(HistoryOf(self, track_id)) < self.frame_threshold THEN self
    ELSE IF is_loitering
    THEN [self EXCEPT !.loitering_tracks = @ \cup {track_id}]
    ELSE [self EXCEPT !.loitering_tracks = @ \ {track_id}]

Restrict(f, S) == [x \in S |-> f[x]]

cleanup_old_tracks(self, active_track_ids) ==
    [self EXCEPT
        !.track_history = Restrict(@, DOMAIN @ \cap active_track_ids),
        !.loitering_tracks = @ \ (DOMAIN self.track_history \ active_track_ids)]

----------------------------------------------------------------------------
(* backend/anomaly/zone_violation.py                                        *)
(* A point is <<x, y>>, a zone the sequence of its polygon's vertices.      *)
(* restricted_zones holds the lists of points as they were given,           *)
(* zone_polygons the shapely polygons made of them; a polygon is modelled   *)
(* by the sequence of its vertices.                                         *)

ZoneViolationDetector_init ==
    [restricted_zones |-> << >>, zone_polygons |-> << >>, violating_tracks |-> {}]

\* shapely's Polygon(zone_points)
Polygon(zone_points) == zone_points

\* the vertex after vertex i
Succ(poly, i) == poly[(i % Len(poly)) + 1]

Cross(a, b, pt) == (b[1] - a[1]) * (pt[2] - a[2]) - (b[2] - a[2]) * (pt[1] - a[1])

OnSegment(a, b, pt) ==
    /\ Cross(a, b, pt) = 0
    /\ Min(a[1], b[1]) <= pt[1] /\ pt[1] <= Max(a[1], b[1])
    /\ Min(a[2], b[2]) <= pt[2] /\ pt[2] <= Max(a[2], b[2])

\* the ray from pt towards +x crosses the edge a-b
RayCrosses(a, b, pt) ==
    /\ (a[2] > pt[2]) # (b[2] > pt[2])
    /\ IF b[2] > a[2]
       THEN (pt[1] - a[1]) * (b[2] - a[2]) < (pt[2] - a[2]) * (b[1] - a[1])
       ELSE (pt[1] - a[1]) * (b[2] - a[2]) > (pt[2] - a[2]) * (b[1] - a[1])

\* shapely's polygon.contains(point): the point is in the interior, a point
\* of the boundary is not contained
_point_in_polygon(pt, poly) ==
    /\ \A i \in DOMAIN poly : ~OnSegment(poly[i], Succ(poly, i), pt)
    /\ Cardinality({i \in DOMAIN poly : RayCrosses(poly[i], Succ(poly, i), pt)}) % 2 = 1

\* an edge test without "y <= max(p1y, p2y)"
ManualToggles_unbounded(p1, p2, point) ==
    /\ point[2] > Min(p1[2], p2[2])
    /\ point[1] <= Max(p1[1], p2[1])
    /\ \/ p1[1] = p2[1]
       \/ p1[2] = p2[2]
       \/ IF p2[2] > p1[2]
          THEN (point[1] - p1[1]) * (p2[2] - p1[2]) <= (point[2] - p1[2]) * (p2[1] - p1[1])
          ELSE (point[1] - p1[1]) * (p2[2] - p1[2]) >= (point[2] - p1[2]) * (p2[1] - p1[1])

\* the edge p1-p2 toggles "inside".  xinters is assigned only when
\* p1y != p2y, and the two tests on y before it fail on every edge with
\* p1y = p2y, so it is never read unassigned.  x <= xinters is
\* x - p1x <= (y - p1y) * (p2x - p1x) / (p2y - p1y), cleared of the division.
ManualToggles(p1, p2, point) ==
    /\ point[2] > Min(p1[2], p2[2])
    /\ point[2] <= Max(p1[2], p2[2])
    /\ point[1] <= Max(p1[1], p2[1])
    /\ \/ p1[1] = p2[1]
       \/ IF p2[2] > p1[2]
          THEN (point[1] - p1[1]) * (p2[2] - p1[2]) <= (point[2] - p1[2]) * (p2[1] - p1[1])
          ELSE (point[1] - p1[1]) * (p2[2] - p1[2]) >= (point[2] - p1[2]) * (p2[1] - p1[1])

\* "inside" after the loop over the edges polygon[i - 1]-polygon[i % n]
point_in_polygon_manual(point, polygon) ==
    Cardinality({i \in DOMAIN polygon :
                    ManualToggles(polygon[i], Succ(polygon, i), point)}) % 2 = 1

add_zone_unchecked(self, zone_points) ==
    [self EXCEPT !.restricted_zones = Append(@, zone_points),
                 !.zone_polygons = Append(@, Polygon(zone_points))]

add_zone(self, zone_points) ==
    IF Len(zone_points) < 3 THEN self
    ELSE [self EXCEPT !.restricted_zones = Append(@, zone_points),
                      !.zone_polygons = Append(@, Polygon(zone_points))]

\* zone_index is Python's, from 0
remove_zone(self, zone_index) ==
    IF 0 <= zone_index /\ zone_index < Len(self.restricted_zones)
    THEN [self EXCEPT
            !.restricted_zones =
                SubSeq(@, 1, zone_index) \o SubSeq(@, zone_index + 2, Len(@)),
            !.zone_polygons =
                SubSeq(@, 1, zone_index) \o SubSeq(@, zone_index + 2, Len(@))]
    ELSE self

clear_zones(self) ==
    [restricted_zones |-> << >>, zone_polygons |-> << >>, violating_tracks |-> {}]

\* the loop over enumerate(zone_polygons): Python's indices of the zones that
\* contain the point, in the order of the loop
ViolatedZones(self, center_point) ==
    SelectSeq([i \in DOMAIN self.zone_polygons |-> i - 1],
              LAMBDA z : _point_in_polygon(center_point, self.zone_polygons[z + 1]))

\* what detect_zone_violation(center_point, track_id=track_id) returns
detect_zone_violation(self, center_point, track_id) ==
    IF self.zone_polygons = << >>
    THEN [is_violation |-> FALSE, violated_zones |-> << >>, alert_triggered |-> FALSE]
    ELSE [is_violation |-> ViolatedZones(self, center_point) # << >>,
          violated_zones |-> ViolatedZones(self, center_point),
          point |-> center_point,
          alert_triggered |-> /\ track_id # None
                              /\ ViolatedZones(self, center_point) # << >>
                              /\ Val(track_id) \notin self.violating_tracks,
          track_id |-> track_id]

\* the detector after detect_zone_violation(center_point, track_id=track_id)
detect_zone_violation_self(self, center_point, track_id) ==
    IF self.zone_polygons = << >> \/ track_id = None THEN self
    ELSE IF ViolatedZones(self, center_point) # << >>
    THEN [self EXCEPT !.violating_tracks = @ \cup {Val(track_id)}]
    ELSE [self EXCEPT !.violating_tracks = @ \ {Val(track_id)}]

----------------------------------------------------------------------------
(* backend/anomaly/suspicious_activity.py                                   *)
(* The pose estimator (mediapipe) is external: the model keeps the length   *)
(* of each track's pose history, and the statistics that                    *)
(* detect_fight_like_motion computes over the last min_frames poses are an  *)
(* input of each evaluation, a record "motion".  Velocities and             *)
(* velocity_threshold are in tenths of a pixel per frame, frac_exceed is in *)
(* hundredths.                                                              *)

SuspiciousActivityDetector_init(velocity_threshold) ==
    [velocity_threshold |-> velocity_threshold,
     min_frames |-> 10,
     pose_history |-> << >>,
     suspicious_tracks |-> {}]

\* self.pose_history.get(track_id, [])
PoseOf(self, track_id) ==
    IF track_id \in DOMAIN self.pose_history
    THEN self.pose_history[track_id] ELSE << >>

\* len(self.pose_history.get(track_id, []))
PoseLen(self, track_id) == Len(PoseOf(self, track_id))

update_pose_history(self, track_id, keypoints) ==
    [self EXCEPT !.pose_history =
        (track_id :> LastN(Append(PoseOf(self, track_id), keypoints), 100)) @@ @]

\* is_suspicious of an evaluation that has min_frames poses
IsSuspicious(self, motion) ==
    \/ /\ 10 * motion.max_velocity > 12 * self.velocity_threshold
       /\ 10 * motion.mean_velocity > 6 * self.velocity_threshold
       /\ motion.frac_exceed >= 25
    \/ /\ 10 * motion.arm_velocity > 14 * self.velocity_threshold
       /\ motion.frac_exceed >= 20

\* what detect_fight_like_motion(track_id=track_id) returns
detect_fight_like_motion(self, track_id, motion) ==
    IF PoseLen(self, track_id) < self.min_frames
    THEN [is_suspicious |-> FALSE,
          track_id |-> track_id,
          frames_analyzed |-> PoseLen(self, track_id),
          alert_triggered |-> FALSE]
    ELSE [is_suspicious |-> IsSuspicious(self, motion),
          track_id |-> track_id,
          max_velocity |-> motion.max_velocity,
          mean_velocity |-> motion.mean_velocity,
          arm_velocity |-> motion.arm_velocity,
          frac_exceed |-> motion.frac_exceed,
          frames_analyzed |-> PoseLen(self, track_id),
          alert_triggered |-> /\ IsSuspicious(self, motion)
                              /\ track_id \notin self.suspicious_tracks]

\* the detector after detect_fight_like_motion(track_id=track_id)
detect_fight_like_motion_self(self, track_id, motion) ==
    IF PoseLen(self, track_id) < self.min_frames THEN self
    ELSE IF IsSuspicious(self, motion)
    THEN [self EXCEPT !.suspicious_tracks = @ \cup {track_id}]
    ELSE [self EXCEPT !.suspicious_tracks = @ \ {track_id}]

suspicious_cleanup_old_tracks(self, active_track_ids) ==
    [self EXCEPT
        !.pose_history = Restrict(@, DOMAIN @ \cap active_track_ids),
        !.suspicious_tracks = @ \ (DOMAIN self.pose_history \ active_track_ids)]

----------------------------------------------------------------------------
(* backend/routes/stream.py: send_anomaly_alert *)

_ALERT_COOLDOWN_SEC == 5

\* _alert_last_ts.get(key, 0)
LastTs(last_ts, key) == IF key \in DOMAIN last_ts THEN last_ts[key] ELSE 0

Suppressed_inclusive(last_ts, key, t) ==
    t - LastTs(last_ts, key) <= _ALERT_COOLDOWN_SEC

\* "if now - last < _ALERT_COOLDOWN_SEC: return"
Suppressed(last_ts, key, t) ==
    t - LastTs(last_ts, key) < _ALERT_COOLDOWN_SEC

\* key = (event_type, details.get('track_id'))
AlertKey(event_type, track_id) == <<event_type, track_id>>

\* send_anomaly_alert at time t, on st = [last_ts, alerts]
send_anomaly_alert(st, event_type, track_id, frame_number, t) ==
    IF Suppressed(st.last_ts, AlertKey(event_type, track_id), t)
    THEN st
    ELSE [st EXCEPT
            !.last_ts = (AlertKey(event_type, track_id) :> t) @@ @,
            !.alerts = Append(@, [type |-> "alert",
                                  event_type |-> event_type,
                                  track_id |-> track_id,
                                  frame_number |-> frame_number,
                                  at |-> t])]

----------------------------------------------------------------------------
(* The anomaly checks of one frame: backend/routes/stream.py (the live      *)
(* loop) and backend/routes/analyze.py (the upload loop).                   *)
(* st is the state threaded through a frame: the four detectors,            *)
(* the debounce table and the alerts broadcast (live), the events collected *)
(* (upload), edges, the (event_type, track_id) for which a detector         *)
(* returned alert_triggered during this frame, calls, the (event_type,      *)
(* track_id) of every detector evaluation of this frame in order, and       *)
(* posed, the tracks for which extract_pose returned keypoints.             *)
(* x is what the frame holds for one reported track: the centre of its box, *)
(* the pose found in it (None or Some) and the motion statistics of its     *)
(* last poses.  A distance is kept as its square.                           *)

Range(seq) == {seq[k] : k \in DOMAIN seq}

Noted(st, fired, event_type, track_id) ==
    [st EXCEPT !.calls = Append(@, AlertKey(event_type, track_id)),
               !.edges = IF fired THEN @ \cup {AlertKey(event_type, track_id)}
                         ELSE @]

\* "if result['alert_triggered']:" await send_anomaly_alert(...) on the live
\* path, events.append(...) on the upload path
Raise(st, live, fire, event_type, track_id, frame_num, t) ==
    IF ~fire THEN st
    ELSE IF live
    THEN [send_anomaly_alert(st, event_type, track_id, frame_num, t)
            EXCEPT !.attempts = @ + 1]
    ELSE [st EXCEPT !.events = Append(@, [event_type |-> event_type,
                                          frame_number |-> frame_num,
                                          track_id |-> track_id])]

OvercrowdingChecked(st, live, r, frame_num, t) ==
    Raise(Noted([st EXCEPT !.overcrowding.alert_active = r.is_overcrowded],
                r.alert_triggered, "overcrowding", None),
          live, r.alert_triggered, "overcrowding", None, frame_num, t)

CheckOvercrowding(st, live, cnt, frame_num, t) ==
    OvercrowdingChecked(st, live, detect_overcrowding(st.overcrowding, cnt, None),
                        frame_num, t)

LoiteringChecked(st, live, track_id, r, frame_num, t) ==
    Raise(Noted([st EXCEPT !.loitering =
                    detect_loitering_self(@, track_id, r.is_loitering)],
                r.alert_triggered, "loitering", Some(track_id)),
          live, r.alert_triggered, "loitering", Some(track_id), frame_num, t)

TrackUpdated(st, live, track_id, frame_num, t) ==
    LoiteringChecked(st, live, track_id,
                     detect_loitering(st.loitering, track_id,
                                      IsLoitering(st.loitering, track_id)),
                     frame_num, t)

CheckLoitering(st, live, track_id, x, frame_num, t) ==
    TrackUpdated([st EXCEPT !.loitering = update_track(@, track_id, x.center, frame_num)],
                 live, track_id, frame_num, t)

ZoneChecked(st, live, track_id, x, r, frame_num, t) ==
    Raise(Noted([st EXCEPT !.zone_violation =
                    detect_zone_violation_self(@, x.center, Some(track_id))],
                r.alert_triggered, "zone_violation", Some(track_id)),
          live, r.alert_triggered, "zone_violation", Some(track_id), frame_num, t)

CheckZone(st, live, track_id, x, frame_num, t) ==
    ZoneChecked(st, live, track_id, x,
                detect_zone_violation(st.zone_violation, x.center, Some(track_id)),
                frame_num, t)

\* min_dist < limit
Nearer(min_dist, limit) == min_dist # None /\ Val(min_dist) < limit * limit

\* the classification with the cruelty rule tried first
Subtype_cruelty_first(vt, r, min_dist) ==
    IF r.arm_velocity > vt /\ Nearer(min_dist, 80) THEN "cruelty"
    ELSE IF r.max_velocity > vt /\ 10 * r.arm_velocity > 12 * vt THEN "fight"
    ELSE IF Nearer(min_dist, 60) /\ 10 * r.mean_velocity < 4 * vt THEN "intimacy"
    ELSE "suspicious"

\* stream.py 475-489
Subtype(vt, r, min_dist) ==
    IF r.max_velocity > vt /\ 10 * r.arm_velocity > 12 * vt THEN "fight"
    ELSE IF Nearer(min_dist, 60) /\ 10 * r.mean_velocity < 4 * vt THEN "intimacy"
    ELSE IF r.arm_velocity > vt /\ Nearer(min_dist, 80) THEN "cruelty"
    ELSE "suspicious"

\* reliability (stream.py 493-496) times 3500 * 24 * vt:
\* motion_factor = min(1, 10 * (max_v + arm_v) / (24 * vt)),
\* spread_factor = min(1, frac_ex / 35), proximity_factor = 10/10 or 6/10
ReliabilityScaled(vt, r, min_dist) ==
    4 * 350 * Min(24 * vt, 10 * (r.max_velocity + r.arm_velocity))
    + 4 * 10 * 24 * vt * Min(35, r.frac_exceed)
    + 2 * 35 * 24 * vt * (IF Nearer(min_dist, 80) THEN 10 ELSE 6)

\* reliability >= tenths / 10
ReliabilityAtLeast(vt, r, min_dist, tenths) ==
    ReliabilityScaled(vt, r, min_dist) >= tenths * 350 * 24 * vt

\* should_alert without the distance and subtype gates
ShouldAlert_ungated(vt, r, min_dist, subtype) ==
    ReliabilityAtLeast(vt, r, min_dist, 5)

\* should_alert (stream.py 499-507)
ShouldAlert(vt, r, min_dist, subtype) ==
    CASE subtype = "fight" ->
            ReliabilityAtLeast(vt, r, min_dist, 6) /\ Nearer(min_dist, 120)
      [] subtype = "cruelty" ->
            ReliabilityAtLeast(vt, r, min_dist, 6) /\ Nearer(min_dist, 140)
      [] subtype = "intimacy" -> FALSE
      [] OTHER -> ReliabilityAtLeast(vt, r, min_dist, 5)

\* activity_result['alert_triggered'] as the live loop tests it (stream.py
\* 476-513): overwritten with should_alert when is_suspicious; with a
\* threshold of 0 the division at stream.py 494 raises and the except clause
\* tests the value the detector returned
LiveAlertTriggered(vt, r, min_dist) ==
    IF r.is_suspicious /\ vt # 0
    THEN ShouldAlert(vt, r, min_dist, Subtype(vt, r, min_dist))
    ELSE r.alert_triggered

Evaluated(st, live, track_id, x, min_dist, r, frame_num, t) ==
    Raise(Noted([st EXCEPT !.suspicious =
                    detect_fight_like_motion_self(@, track_id, x.motion)],
                r.alert_triggered, "suspicious_activity", Some(track_id)),
          live,
          IF live THEN LiveAlertTriggered(st.suspicious.velocity_threshold, r, min_dist)
          ELSE r.alert_triggered,
          "suspicious_activity", Some(track_id), frame_num, t)

PoseUpdated(st, live, every, track_id, x, min_dist, frame_num, t) ==
    IF frame_num % every # 0 THEN st
    ELSE Evaluated(st, live, track_id, x, min_dist,
                   detect_fight_like_motion(st.suspicious, track_id, x.motion),
                   frame_num, t)

CheckSuspicious(st, live, every, track_id, x, min_dist, frame_num, t) ==
    IF x.pose = None THEN st
    ELSE PoseUpdated([st EXCEPT !.suspicious = update_pose_history(@, track_id,
                                                                   Val(x.pose)),
                                !.posed = @ \cup {track_id}],
                     live, every, track_id, x, min_dist, frame_num, t)

\* the body of "for track in tracks:"
CheckTrack(st, live, every, track_id, x, min_dist, frame_num, t) ==
    CheckSuspicious(
        CheckZone(CheckLoitering(st, live, track_id, x, frame_num, t),
                  live, track_id, x, frame_num, t),
        live, every, track_id, x, min_dist, frame_num, t)

DistSq(a, b) == Sq(a[1] - b[1]) + Sq(a[2] - b[2])

\* the square of the least distance to the centre of another track, or None
MinDistSq(tracks, inp, track_id) ==
    IF Range(tracks) \ {track_id} = {} THEN None
    ELSE Some(CHOOSE d \in {DistSq(inp[o].center, inp[track_id].center) :
                                o \in Range(tracks) \ {track_id}} :
                \A o \in Range(tracks) \ {track_id} :
                    d <= DistSq(inp[o].center, inp[track_id].center))

RECURSIVE CheckTracks(_, _, _, _, _, _, _, _)
CheckTracks(st, live, every, tracks, k, inp, frame_num, t) ==
    IF k > Len(tracks) THEN st
    ELSE CheckTracks(CheckTrack(st, live, every, tracks[k], inp[tracks[k]],
                                MinDistSq(tracks, inp, tracks[k]), frame_num, t),
                     live, every, tracks, k + 1, inp, frame_num, t)

\* a loop body without the two cleanup calls
Cleaned_skipped(st, active_track_ids) == st

\* loitering.cleanup_old_tracks, suspicious.cleanup_old_tracks
Cleaned(st, active_track_ids) ==
    [st EXCEPT !.loitering = cleanup_old_tracks(@, active_track_ids),
               !.suspicious = suspicious_cleanup_old_tracks(@, active_track_ids)]

\* "Check anomalies" to the end of the loop body
CheckAnomalies(st, live, every, tracks, inp, frame_num, t) ==
    Cleaned(CheckTracks(CheckOvercrowding(st, live, Len(tracks), frame_num, t),
                        live, every, tracks, 1, inp, frame_num, t),
            Range(tracks))

----------------------------------------------------------------------------
(* The components as main.py's lifespan and stream.py's module body leave   *)
(* them: what a specification that does not exercise a component keeps it at *)

StartTime == 100        \* the wall clock at the start

TrackerUnused ==
    /\ count = 0
    /\ max_age = 30
    /\ min_hits = 3
    /\ trackers = << >>
    /\ frame_count = 0
    /\ issued = << >>

OvercrowdingUnused ==
    /\ overcrowding = OvercrowdingDetector_init(10)
    /\ oc_calls = << >>

LoiteringUnused ==
    /\ loitering = LoiteringDetector_init(50, 300, 30)
    /\ lt_fed = << >>

ZonesUnused ==
    /\ zone_violation = ZoneViolationDetector_init
    /\ zv_last = << >>

AlertsUnused ==
    /\ _alert_last_ts = << >>
    /\ now = StartTime
    /\ alerts = << >>
    /\ attempts = 0

ServerUnused ==
    /\ suspicious = SuspiciousActivityDetector_init(150)
    /\ live_task = None
    /\ live_source = None
    /\ last_live_jpeg = None
    /\ tasks = << >>
    /\ obs = [op |-> "init"]

NoBroadcast ==
    [state |-> "idle", n |-> 0, size |-> 0, started |-> {}, todo |-> {},
     attempted |-> {}, failed |-> {}, succeeded |-> {}]

ManagerUnused ==
    /\ active_connections = {}
    /\ accepted = {}
    /\ broadcast = NoBroadcast

----------------------------------------------------------------------------
(* The tracker alone: one DeepSORT instance, any sequence of update calls *)

InitTracker ==
    /\ count = 0
    /\ max_age \in MaxAges
    /\ min_hits \in MinHits
    /\ trackers = << >>
    /\ frame_count = 0
    /\ issued = << >>
    /\ OvercrowdingUnused
    /\ LoiteringUnused
    /\ ZonesUnused
    /\ AlertsUnused
    /\ ServerUnused
    /\ ManagerUnused
    /\ out = [op |-> "init"]

NextTracker == Update

SpecTracker == InitTracker /\ [][NextTracker]_vars

IssuedIds == {issued[i] : i \in DOMAIN issued}

\* C1: over any sequence of update calls, every id given to a new track is
\* greater than every id given before it (so no id is given twice, and the id
\* of a removed track never comes back); every live track holds an issued id,
\* and no two live tracks hold the same one.
C1_IdsStrictlyIncreasing ==
    /\ \A i, j \in DOMAIN issued : i < j => issued[i] < issued[j]
    /\ Ids(trackers) \subseteq IssuedIds
    /\ \A i, j \in DOMAIN trackers : i # j => trackers[i].id # trackers[j].id
    /\ out.op = "update" =>
          \A k \in DOMAIN out.created :
              \A i \in 1..(Len(issued) - Len(out.created)) :
                  issued[i] < out.created[k]

\* C1 witness: an id is issued on a frame on which an earlier id is no longer live.
C1_Witness ==
    /\ out.op = "update"
    /\ out.created # << >>
    /\ \E i \in IssuedIds : i < out.created[1] /\ i \notin Ids(trackers)

TrackOf(ts, id) == ts[CHOOSE k \in DOMAIN ts : ts[k].id = id]

\* C2: on every frame, a live track that is predicted (not dropped for a NaN)
\* and left unmatched has its time_since_update raised by one, and stays live
\* exactly while that is below max_age; a matched or new track has
\* time_since_update 0 and stays live.  So a track unmatched on max_age
\* consecutive frames is live after each of the first max_age - 1 of them and
\* is removed at the end of the frame on which time_since_update first equals
\* max_age.  No live track ever has time_since_update >= max_age, and an id
\* that has left the live set never returns to it.
C2_RemovedAtMaxAge ==
    /\ [](\A k \in DOMAIN trackers : trackers[k].time_since_update < max_age)
    /\ [][
         /\ \A k \in DOMAIN trackers :
              LET t == trackers[k] IN
              IF t.id \in out'.dropped THEN t.id \notin Ids(trackers')
              ELSE IF t.id \in out'.matched
              THEN /\ t.id \in Ids(trackers')
                   /\ TrackOf(trackers', t.id).time_since_update = 0
              ELSE IF t.time_since_update + 1 < max_age
              THEN /\ t.id \in Ids(trackers')
                   /\ t.id \notin out'.removed
                   /\ TrackOf(trackers', t.id).time_since_update
                          = t.time_since_update + 1
              ELSE /\ t.id \notin Ids(trackers')
                   /\ t.id \in out'.removed
         /\ \A j \in DOMAIN out'.created :
              /\ out'.created[j] \in Ids(trackers')
              /\ TrackOf(trackers', out'.created[j]).time_since_update = 0
         /\ \A id \in IssuedIds :
              id \notin Ids(trackers) => id \notin Ids(trackers')
       ]_vars

\* C2 witness: with max_age = 2, a track is removed for its age on this frame.
C2_Witness ==
    /\ out.op = "update"
    /\ max_age = 2
    /\ out.removed # {}
    /\ out.dropped = {}

\* C3: the list update returns holds, in live-list order, exactly the live
\* tracks with time_since_update < 1 and (hit_streak >= min_hits or
\* frame_count <= min_hits); a track created on this frame is in it exactly
\* while frame_count <= min_hits, and every reported track was matched or
\* created on this frame.
C3_ReportedTracks ==
    out.op = "update" =>
        /\ out.ret = IdSeq(SelectSeq(trackers,
                LAMBDA t : t.time_since_update < 1
                           /\ (t.hit_streak >= min_hits \/ frame_count <= min_hits)))
        /\ \A k \in DOMAIN out.created :
              (\E j \in DOMAIN out.ret : out.ret[j] = out.created[k])
                  <=> frame_count <= min_hits
        /\ \A j \in DOMAIN out.ret :
              \/ out.ret[j] \in out.matched
              \/ \E k \in DOMAIN out.created : out.created[k] = out.ret[j]

\* C3 witness: past the startup window, one track is reported while a track
\* created on the same frame is not, and a track unmatched on this frame is live.
C3_Witness ==
    /\ out.op = "update"
    /\ frame_count > min_hits
    /\ out.ret # << >>
    /\ out.created # << >>
    /\ Len(trackers) > Len(out.ret)

----------------------------------------------------------------------------
(* One OvercrowdingDetector, any sequence of calls *)

MaxCalls == 5                       \* detect_overcrowding calls explored

Counts == {3, 5, 8}                 \* people counts
Thresholds == {5, 7}                \* thresholds
ThresholdArgs == {None, Some(7)}         \* the threshold argument of a call

DetectOvercrowding ==
    /\ Len(oc_calls) < MaxCalls
    /\ \E cnt \in Counts, threshold \in ThresholdArgs :
         \E r \in {detect_overcrowding(overcrowding, cnt, threshold)} :
            /\ overcrowding' = [overcrowding EXCEPT !.alert_active = r.is_overcrowded]
            /\ oc_calls' = Append(oc_calls, r)
            /\ out' = [op |-> "detect_overcrowding", ret |-> r]
    /\ UNCHANGED <<manager_vars, server_vars, tracker_vars, loitering_vars, zone_vars, alert_vars>>

SetThreshold ==
    /\ \E threshold \in Thresholds :
         /\ threshold # overcrowding.threshold
         /\ overcrowding' = set_threshold(overcrowding, threshold)
    /\ out' = [op |-> "set_threshold"]
    /\ UNCHANGED <<manager_vars, server_vars, tracker_vars, oc_calls, loitering_vars, zone_vars, alert_vars>>

InitOvercrowding ==
    /\ TrackerUnused
    /\ overcrowding \in {OvercrowdingDetector_init(t) : t \in Thresholds}
    /\ oc_calls = << >>
    /\ LoiteringUnused
    /\ ZonesUnused
    /\ AlertsUnused
    /\ ServerUnused
    /\ ManagerUnused
    /\ out = [op |-> "init"]

NextOvercrowding == DetectOvercrowding \/ SetThreshold

SpecOvercrowding == InitOvercrowding /\ [][NextOvercrowding]_vars

CountsOf(calls) == Tup([k \in DOMAIN calls |-> calls[k].current_count])

AlertsOf(calls) == Tup([k \in DOMAIN calls |-> calls[k].alert_triggered])

\* C8: in any sequence of detect_overcrowding calls on one detector, a call
\* returns alert_triggered exactly when its count is above its threshold and
\* the call before it (if any) had its count at or below its threshold; with
\* threshold 5 on every call the counts 3,8,8,3,8 return False, True, False,
\* False, True; after each call alert_active is that call's is_overcrowded.
C8_OvercrowdingEdge ==
    /\ \A k \in DOMAIN oc_calls :
          /\ oc_calls[k].is_overcrowded
                <=> oc_calls[k].current_count > oc_calls[k].threshold
          /\ oc_calls[k].alert_triggered
                <=> /\ oc_calls[k].current_count > oc_calls[k].threshold
                    /\ k > 1 => oc_calls[k-1].current_count <= oc_calls[k-1].threshold
    /\ (/\ CountsOf(oc_calls) = <<3, 8, 8, 3, 8>>
        /\ \A k \in DOMAIN oc_calls : oc_calls[k].threshold = 5)
          => AlertsOf(oc_calls) = <<FALSE, TRUE, FALSE, FALSE, TRUE>>
    /\ oc_calls # << >> =>
          overcrowding.alert_active = oc_calls[Len(oc_calls)].is_overcrowded

\* C8 witness: the counts 3,8,8,3,8 have been evaluated against threshold 5.
C8_Witness ==
    /\ CountsOf(oc_calls) = <<3, 8, 8, 3, 8>>
    /\ \A k \in DOMAIN oc_calls : oc_calls[k].threshold = 5
    /\ out.op = "detect_overcrowding"
    /\ out.ret.alert_triggered

----------------------------------------------------------------------------
(* send_anomaly_alert alone, against a wall clock *)

Horizon == 6            \* seconds of wall clock explored
MaxAttempts == 3        \* send_anomaly_alert calls explored

\* (event_type, details.get('track_id')) of the calls
AlertArgs == { <<"overcrowding", None>>, <<"zone_violation", Some(1)>> }
ClockSteps == {1, 4, 0 - 2}     \* the wall clock may be stepped back

SendAnomalyAlert ==
    /\ attempts < MaxAttempts
    /\ attempts' = attempts + 1
    /\ \E a \in AlertArgs :
         \E st \in {send_anomaly_alert([last_ts |-> _alert_last_ts, alerts |-> alerts],
                                        a[1], a[2], 1, now)} :
            /\ _alert_last_ts' = st.last_ts
            /\ alerts' = st.alerts
            /\ out' = [op |-> "send_anomaly_alert", key |-> AlertKey(a[1], a[2])]
    /\ UNCHANGED <<manager_vars, server_vars, tracker_vars, overcrowding_vars, loitering_vars, zone_vars, now>>

ClockStep ==
    /\ \E d \in ClockSteps :
         /\ now + d \in StartTime..(StartTime + Horizon)
         /\ now' = now + d
    /\ out' = [op |-> "clock"]
    /\ UNCHANGED <<manager_vars, server_vars, tracker_vars, overcrowding_vars, loitering_vars, zone_vars>>
    /\ UNCHANGED <<_alert_last_ts, alerts, attempts>>

InitDebounce ==
    /\ TrackerUnused
    /\ OvercrowdingUnused
    /\ LoiteringUnused
    /\ ZonesUnused
    /\ AlertsUnused
    /\ ServerUnused
    /\ ManagerUnused
    /\ out = [op |-> "init"]

NextDebounce == SendAnomalyAlert \/ ClockStep

SpecDebounce == InitDebounce /\ [][NextDebounce]_vars

\* C7: a send_anomaly_alert call at time now for a key broadcasts the alert
\* and records now for the key exactly when the key has no recorded time or
\* now minus the recorded time is at least the cooldown; otherwise it
\* broadcasts nothing and every recorded time stays as it was.  Any two
\* alerts broadcast for one key are at least the cooldown apart.
C7_Debounce ==
    /\ [](\A i, j \in DOMAIN alerts :
            (/\ i < j
             /\ alerts[i].event_type = alerts[j].event_type
             /\ alerts[i].track_id = alerts[j].track_id)
                => alerts[j].at - alerts[i].at >= _ALERT_COOLDOWN_SEC)
    /\ [][ attempts' # attempts =>
            IF \/ out'.key \notin DOMAIN _alert_last_ts
               \/ now - _alert_last_ts[out'.key] >= _ALERT_COOLDOWN_SEC
            THEN /\ Len(alerts') = Len(alerts) + 1
                 /\ SubSeq(alerts', 1, Len(alerts)) = alerts
                 /\ alerts'[Len(alerts')].at = now
                 /\ AlertKey(alerts'[Len(alerts')].event_type,
                             alerts'[Len(alerts')].track_id) = out'.key
                 /\ DOMAIN _alert_last_ts' = DOMAIN _alert_last_ts \cup {out'.key}
                 /\ \A k \in DOMAIN _alert_last_ts' :
                       _alert_last_ts'[k] = IF k = out'.key THEN now
                                            ELSE _alert_last_ts[k]
            ELSE /\ alerts' = alerts
                 /\ _alert_last_ts' = _alert_last_ts
          ]_vars

\* C7 witness: a call for a key is suppressed, and later, once the cooldown
\* has passed since the key's recorded time, a second alert for the key is
\* broadcast: the suppressed call did not move the recorded time.
C7_Witness ==
    /\ attempts >= 3
    /\ Len(alerts) = 2
    /\ alerts[1].event_type = alerts[2].event_type
    /\ alerts[1].track_id = alerts[2].track_id
    /\ alerts[2].at - alerts[1].at = _ALERT_COOLDOWN_SEC
    /\ out.op = "send_anomaly_alert"

----------------------------------------------------------------------------
(* One ZoneViolationDetector, any sequence of calls *)

MaxZones == 2           \* zones configured at once

Square == << <<100, 100>>, <<200, 100>>, <<200, 200>>, <<100, 200>> >>
Triangle == << <<150, 150>>, <<350, 150>>, <<150, 350>> >>
Segment == << <<100, 100>>, <<200, 200>> >>
ZoneShapes == {Square, Triangle, Segment}

\* in the square only, twice; on an edge of both; in both; in neither
ZonePoints == { <<120, 120>>, <<150, 150>>, <<200, 150>>, <<160, 160>>, <<300, 300>> }
ZoneTrackIds == {Some(1), Some(2), None}

AddZone ==
    /\ Len(zone_violation.zone_polygons) < MaxZones
    /\ \E zone_points \in ZoneShapes :
         /\ zone_violation' = add_zone(zone_violation, zone_points)
         /\ out' = [op |-> "add_zone", zone_points |-> zone_points,
                    before |-> zone_violation]
    /\ UNCHANGED <<manager_vars, server_vars, tracker_vars, overcrowding_vars, loitering_vars, zv_last, alert_vars>>

RemoveZone ==
    /\ \E zone_index \in 0..MaxZones :
         zone_violation' = remove_zone(zone_violation, zone_index)
    /\ out' = [op |-> "remove_zone"]
    /\ UNCHANGED <<manager_vars, server_vars, tracker_vars, overcrowding_vars, loitering_vars, zv_last, alert_vars>>

ClearZones ==
    /\ zone_violation' = clear_zones(zone_violation)
    /\ out' = [op |-> "clear_zones"]
    /\ UNCHANGED <<manager_vars, server_vars, tracker_vars, overcrowding_vars, loitering_vars, zv_last, alert_vars>>

DetectZoneViolation ==
    /\ \E center_point \in ZonePoints, track_id \in ZoneTrackIds :
         \E r \in {detect_zone_violation(zone_violation, center_point, track_id)} :
            /\ zone_violation' =
                  detect_zone_violation_self(zone_violation, center_point, track_id)
            /\ zv_last' = IF track_id = None THEN zv_last
                          ELSE (Val(track_id) :> r.is_violation) @@ zv_last
            /\ out' = [op |-> "detect_zone_violation",
                       center_point |-> center_point,
                       track_id |-> track_id,
                       previous |-> IF track_id # None /\ Val(track_id) \in DOMAIN zv_last
                                    THEN Some(zv_last[Val(track_id)]) ELSE None,
                       violating_before |-> zone_violation.violating_tracks,
                       ret |-> r]
    /\ UNCHANGED <<manager_vars, server_vars, tracker_vars, overcrowding_vars, loitering_vars, alert_vars>>

\* a pentagon with a notch on its right side
Notch == << <<100, 100>>, <<300, 100>>, <<200, 200>>, <<300, 300>>, <<100, 300>> >>
ManualPolygons == {Square, Triangle, Notch}
GridStep == 50
GridSteps == 6
ManualPoints == {<<GridStep * i, GridStep * j>> : i, j \in 1..GridSteps}

OnBoundary(pt, poly) == \E i \in DOMAIN poly : OnSegment(poly[i], Succ(poly, i), pt)

\* the static method, on a simple polygon
PointInPolygonManual ==
    /\ \E point \in ManualPoints, polygon \in ManualPolygons :
         out' = [op |-> "point_in_polygon_manual",
                 point |-> point,
                 polygon |-> polygon,
                 ret |-> point_in_polygon_manual(point, polygon)]
    /\ UNCHANGED <<manager_vars, server_vars, tracker_vars, overcrowding_vars, loitering_vars, zone_vars, alert_vars>>

InitZone ==
    /\ TrackerUnused
    /\ OvercrowdingUnused
    /\ LoiteringUnused
    /\ ZonesUnused
    /\ AlertsUnused
    /\ ServerUnused
    /\ ManagerUnused
    /\ out = [op |-> "init"]

NextZone ==
    AddZone \/ RemoveZone \/ ClearZones \/ DetectZoneViolation \/ PointInPolygonManual

SpecZone == InitZone /\ [][NextZone]_vars

InSomeZone(pt) ==
    \E i \in DOMAIN zone_violation.zone_polygons :
        _point_in_polygon(pt, zone_violation.zone_polygons[i])

\* C10: whatever add_zone, remove_zone, clear_zones and detect_zone_violation
\* calls came before, detect_zone_violation(p, track_id=t) returns
\* alert_triggered exactly when p is inside some configured zone and the
\* previous evaluation of t (if any) returned is_violation False; and the
\* evaluation leaves every other track's edge state as it was.
C10_ZoneEdge ==
    (out.op = "detect_zone_violation" /\ out.track_id # None) =>
        /\ out.ret.alert_triggered
              <=> /\ InSomeZone(out.center_point)
                  /\ out.previous \in {None, Some(FALSE)}
        /\ zone_violation.violating_tracks \ {Val(out.track_id)}
              = out.violating_before \ {Val(out.track_id)}

----------------------------------------------------------------------------
(* One LoiteringDetector, any sequence of calls.  With the small            *)
(* configurations two tracks are fed either of two positions; with the      *)
(* configuration of test_loitering_detector (10 s at 30 fps) one track is   *)
(* fed the test's position.                                                 *)

ExtraFrames == 2        \* update_track calls explored past frame_threshold
SmallThreshold == 3     \* the largest frame_threshold explored with varied input

LoiteringConfigs ==
    { <<50, 1, 2>>, <<50, 1, 3>>, <<50, 10, 30>> }

LoiterTracks(self) == IF self.frame_threshold <= SmallThreshold THEN {1, 2} ELSE {1}

LoiterPoints(self) ==
    IF self.frame_threshold <= SmallThreshold
    THEN { <<100, 100>>, <<200, 100>> } ELSE { <<100, 100>> }

Fed0 == [fed |-> 0, same |-> TRUE, paired |-> TRUE, due |-> FALSE]

FedOf(track_id) == IF track_id \in DOMAIN lt_fed THEN lt_fed[track_id] ELSE Fed0

UpdateTrack ==
    /\ \E track_id \in LoiterTracks(loitering), center_point \in LoiterPoints(loitering) :
         /\ FedOf(track_id).fed < loitering.frame_threshold + ExtraFrames
         /\ loitering' = update_track(loitering, track_id, center_point,
                                      FedOf(track_id).fed)
         /\ lt_fed' = (track_id :>
                         [fed |-> FedOf(track_id).fed + 1,
                          same |-> /\ FedOf(track_id).same
                                   /\ \A k \in DOMAIN HistoryOf(loitering, track_id) :
                                        /\ HistoryOf(loitering, track_id)[k][1] = center_point[1]
                                        /\ HistoryOf(loitering, track_id)[k][2] = center_point[2],
                          paired |-> FedOf(track_id).paired /\ ~FedOf(track_id).due,
                          due |-> TRUE]) @@ lt_fed
         /\ out' = [op |-> "update_track", track_id |-> track_id]
    /\ UNCHANGED <<manager_vars, server_vars, tracker_vars, overcrowding_vars, zone_vars, alert_vars>>

DetectLoitering ==
    /\ \E track_id \in LoiterTracks(loitering) :
         \E r \in {detect_loitering(loitering, track_id, IsLoitering(loitering, track_id))} :
            /\ loitering' = detect_loitering_self(loitering, track_id, r.is_loitering)
            /\ lt_fed' = (track_id :>
                            [FedOf(track_id) EXCEPT
                                !.paired = @ /\ FedOf(track_id).due,
                                !.due = FALSE]) @@ lt_fed
            /\ out' = [op |-> "detect_loitering", track_id |-> track_id, ret |-> r]
    /\ UNCHANGED <<manager_vars, server_vars, tracker_vars, overcrowding_vars, zone_vars, alert_vars>>

CleanupOldTracks ==
    /\ \E active_track_ids \in SUBSET LoiterTracks(loitering) :
         /\ DOMAIN loitering.track_history \ active_track_ids # {}
         /\ loitering' = cleanup_old_tracks(loitering, active_track_ids)
         /\ lt_fed' = Restrict(lt_fed,
                         DOMAIN lt_fed \ (DOMAIN loitering.track_history \ active_track_ids))
    /\ out' = [op |-> "cleanup_old_tracks"]
    /\ UNCHANGED <<manager_vars, server_vars, tracker_vars, overcrowding_vars, zone_vars, alert_vars>>

InitLoitering ==
    /\ TrackerUnused
    /\ OvercrowdingUnused
    /\ loitering \in {LoiteringDetector_init(c[1], c[2], c[3]) : c \in LoiteringConfigs}
    /\ lt_fed = << >>
    /\ ZonesUnused
    /\ AlertsUnused
    /\ ServerUnused
    /\ ManagerUnused
    /\ out = [op |-> "init"]

NextLoitering == UpdateTrack \/ DetectLoitering \/ CleanupOldTracks

SpecLoitering == InitLoitering /\ [][NextLoitering]_vars

\* C9: take a track that, since it was last cleaned up, has been fed one
\* and the same position, each update_track followed by one detect_loitering
\* (pixel_threshold > 0, frame_threshold >= 1).  Its detect_loitering returns
\* is_loitering False while fewer than frame_threshold positions are held,
\* is_loitering True with alert_triggered True on the call at which the
\* history first holds frame_threshold positions (the 300th call for
\* time_threshold = 10 and fps = 30), and is_loitering True with
\* alert_triggered False on every later call.
C9_LoiteringEdge ==
    (/\ out.op = "detect_loitering"
     /\ FedOf(out.track_id).same
     /\ FedOf(out.track_id).paired)
        => /\ out.ret.is_loitering
                <=> FedOf(out.track_id).fed >= loitering.frame_threshold
           /\ out.ret.alert_triggered
                <=> FedOf(out.track_id).fed = loitering.frame_threshold
           /\ (loitering.time_threshold = 10 /\ loitering.fps = 30)
                => /\ out.ret.is_loitering <=> FedOf(out.track_id).fed >= 300
                   /\ out.ret.alert_triggered <=> FedOf(out.track_id).fed = 300

\* C9 witness: the 301st call of the test's sequence has returned.
C9_Witness ==
    /\ out.op = "detect_loitering"
    /\ loitering.time_threshold = 10 /\ loitering.fps = 30
    /\ FedOf(out.track_id).same
    /\ FedOf(out.track_id).paired
    /\ FedOf(out.track_id).fed = 301
    /\ out.ret.is_loitering
    /\ ~out.ret.alert_triggered


----------------------------------------------------------------------------
(* The sessions: backend/routes/stream.py (start_stream, stop_stream,       *)
(* _run_live_stream) and backend/routes/analyze.py (analyze_video), all     *)
(* over the components of main.py's app_state.                              *)
(* A session is a record of tasks; its number is its index.  A live task is *)
(* "created" by asyncio.create_task, "running" from its first step to its   *)
(* end, "cancelling" when cancel() has reached it at an await and its       *)
(* CancelledError handler has not run yet, and "done" afterwards.  An       *)
(* upload is "running" from the end of its file read to its return: that    *)
(* stretch has no await, so nothing else of the server runs meanwhile.      *)

\* a live config: the keys the message holds are Some
EmptyConfig ==
    [overcrowding_threshold |-> None, loitering_distance |-> None,
     loitering_time |-> None, fps |-> None, velocity_threshold |-> None,
     restricted_zones |-> None]

\* AnalysisConfig()
AnalysisConfig ==
    [overcrowding_threshold |-> 10, loitering_time |-> 300,
     loitering_distance |-> 50, velocity_threshold |-> 150,
     restricted_zones |-> << >>]

\* config.get(key, current)
Get(opt, current) == IF opt = None THEN current ELSE Val(opt)

\* "for zone in ...: zone_violation.add_zone(...)"
RECURSIVE add_zones(_, _, _)
add_zones(self, zones, k) ==
    IF k > Len(zones) THEN self
    ELSE add_zones(add_zone(self, zones[k]), zones, k + 1)

\* loitering.frame_threshold = int(loitering.time_threshold * loitering.fps)
WithFrameThreshold(self) ==
    [self EXCEPT !.frame_threshold = self.time_threshold * self.fps]

\* A value of a config message is None (the key is absent), Some(v), or
\* Malformed: a value of the wrong type, on which int() and float() raise and
\* which cannot be iterated.
Malformed == <<0, 0>>

Raises(opt) == Len(opt) = 2

\* the configurable components, and whether an exception is on its way
Components ==
    [overcrowding |-> overcrowding, loitering |-> loitering,
     suspicious |-> suspicious, zone_violation |-> zone_violation,
     raised |-> FALSE]

\* one assignment "x = int(config[key])" / "x = float(config.get(key, x))":
\* not reached once an exception is on its way, raising on a malformed value
Assign(cs, opt, new) ==
    IF cs.raised \/ opt = None THEN cs
    ELSE IF Raises(opt) THEN [cs EXCEPT !.raised = TRUE]
    ELSE new

ApplyThreshold(cs, opt) ==
    Assign(cs, opt, [cs EXCEPT !.overcrowding.threshold = Val(opt)])

ApplyDistance(cs, opt) ==
    Assign(cs, opt, [cs EXCEPT !.loitering.pixel_threshold = Val(opt)])

ApplyTime(cs, opt) ==
    Assign(cs, opt, [cs EXCEPT !.loitering.time_threshold = Val(opt)])

ApplyFps(cs, opt) ==
    Assign(cs, opt, [cs EXCEPT !.loitering.fps = Val(opt)])

ApplyFrameThreshold(cs) ==
    IF cs.raised THEN cs ELSE [cs EXCEPT !.loitering = WithFrameThreshold(@)]

ApplyVelocity(cs, opt) ==
    Assign(cs, opt, [cs EXCEPT !.suspicious.velocity_threshold = Val(opt)])

\* "if 'restricted_zones' in config:" clear_zones(), then the add_zone loop
ApplyZones(cs, opt) ==
    IF cs.raised \/ opt = None THEN cs
    ELSE IF Raises(opt)
    THEN [cs EXCEPT !.zone_violation = clear_zones(@), !.raised = TRUE]
    ELSE [cs EXCEPT !.zone_violation = add_zones(clear_zones(@), Val(opt), 1)]

\* "try: ... except Exception: pass" around a block entered with `before`
Swallowed(cs, before) == [cs EXCEPT !.raised = before.raised]

\* _run_live_stream, "Recompute frame threshold for loitering if fps/time change"
LiveFrameThreshold(cs, config) ==
    Swallowed(ApplyFrameThreshold(ApplyFps(cs, config.fps)), cs)

\* _run_live_stream, "Apply config thresholds if provided": an exception
\* here ends the task
LiveConfigured(cs, config) ==
    ApplyZones(
        ApplyVelocity(
            LiveFrameThreshold(
                ApplyTime(
                    ApplyDistance(
                        ApplyThreshold(cs, config.overcrowding_threshold),
                        config.loitering_distance),
                    config.loitering_time),
                config),
            config.velocity_threshold),
        config.restricted_zones)

\* websocket_endpoint, command update_config: the whole in one try
ConfigUpdated(cs, config) ==
    ApplyZones(
        ApplyVelocity(
            ApplyFrameThreshold(
                ApplyFps(
                    ApplyTime(
                        ApplyDistance(
                            ApplyThreshold(cs, config.overcrowding_threshold),
                            config.loitering_distance),
                        config.loitering_time),
                    config.fps)),
            config.velocity_threshold),
        config.restricted_zones)

\* the config an upload request holds: the keys of AnalysisConfig
EmptyRequest ==
    [overcrowding_threshold |-> None, loitering_time |-> None,
     loitering_distance |-> None, velocity_threshold |-> None,
     restricted_zones |-> None]

\* analyze_video, "Parse configuration": AnalysisConfig(**config_dict), or
\* AnalysisConfig() when validation fails
Parsed(request) ==
    IF \E key \in DOMAIN request : Raises(request[key]) THEN AnalysisConfig
    ELSE [key \in DOMAIN request |-> Get(request[key], AnalysisConfig[key])]

\* analyze_video, "Update thresholds dynamically from config"
UploadOvercrowding(self, config) ==
    [self EXCEPT !.threshold = config.overcrowding_threshold]

UploadLoitering(self, config) ==
    [self EXCEPT !.pixel_threshold = config.loitering_distance,
                 !.time_threshold = config.loitering_time]

UploadSuspicious(self, config) ==
    [self EXCEPT !.velocity_threshold = config.velocity_threshold]

UploadZones(self, config) ==
    add_zones(clear_zones(self), config.restricted_zones, 1)

NewTask(kind, state, config) ==
    [kind |-> kind, state |-> state, stage |-> "loop", frame_num |-> 0,
     config |-> config, events |-> << >>, cancelled |-> FALSE,
     begun |-> state # "created"]

\* app_state['detector'] holds a PersonDetector: some session has passed
\* "app_state['detector'] = detector" (stream.py) or
\* "app_state['detector'] = PersonDetector()" (analyze.py)
DetectorLoaded(ts) == \E k \in DOMAIN ts : ts[k].begun

\* task.cancel() without its effect on a task that is suspended
Cancelled_unobserved(ts, sid) ==
    IF ts[sid].state = "created"
    THEN [ts EXCEPT ![sid].state = "done", ![sid].cancelled = TRUE]
    ELSE IF ts[sid].state = "running"
    THEN [ts EXCEPT ![sid].cancelled = TRUE]
    ELSE ts

\* task.cancel(): a task that has not taken its first step never runs its
\* body; a task suspended at an await gets CancelledError there; a task that
\* has ended is left as it is
Cancelled(ts, sid) ==
    IF ts[sid].state = "created"
    THEN [ts EXCEPT ![sid].state = "done", ![sid].cancelled = TRUE]
    ELSE IF ts[sid].state = "running"
    THEN [ts EXCEPT ![sid].state = "cancelling", ![sid].cancelled = TRUE]
    ELSE ts

\* a command that leaves the earlier task alone
CancelLive_skipped(ts, task) == ts

\* "if live_task: live_task.cancel()"
CancelLive(ts, task) == IF task = None THEN ts ELSE Cancelled(ts, Val(task))

\* the synchronous stretch of an upload holds the event loop
UploadBusy ==
    \E k \in DOMAIN tasks : tasks[k].kind = "upload" /\ tasks[k].state = "running"


----------------------------------------------------------------------------
(* The server: live streams started and stopped over the websocket, and     *)
(* uploads, against a wall clock.  Each frame holds no person or one, whom  *)
(* the tracker follows; the box, the pose and the motion statistics of a    *)
(* reported track are inputs of the frame.                                  *)

MaxSessions == 3        \* sessions started
ServerFrames == 3       \* frames the tracker is given, over all sessions

ServerDetLists == { << >>, << <<0, 0, 2, 2>> >> }
ServerPredictions == { [kind |-> "fin", box |-> <<0, 0, 2, 2>>] }
ServerCenters == { <<160, 160>> }

\* motion statistics of the last min_frames poses
Calm == [max_velocity |-> 20, mean_velocity |-> 10, arm_velocity |-> 10,
         frac_exceed |-> 0]
Agitated == [max_velocity |-> 400, mean_velocity |-> 133, arm_velocity |-> 133,
             frac_exceed |-> 33]
Brawl == [max_velocity |-> 400, mean_velocity |-> 200, arm_velocity |-> 300,
          frac_exceed |-> 60]
Motions == {Calm, Agitated, Brawl}

LiveConfigs ==
    { EmptyConfig,
      [EmptyConfig EXCEPT !.overcrowding_threshold = Some(1),
                          !.loitering_time = Some(1),
                          !.fps = Some(2),
                          !.restricted_zones = Some(<<Square>>)] }

UploadRequests ==
    { EmptyRequest,
      [EmptyRequest EXCEPT !.overcrowding_threshold = Some(1),
                           !.restricted_zones = Some(<<Square>>)] }

\* the motion statistics matter on the frames that evaluate them
TrackInputs(frame_num, every) ==
    { [center |-> c, pose |-> None, motion |-> Calm] : c \in ServerCenters }
        \cup [center : ServerCenters,
              pose : {Some("keypoints")},
              motion : IF frame_num % every = 0 THEN Motions ELSE {Calm}]

FrameState(sid) ==
    [overcrowding |-> overcrowding, loitering |-> loitering,
     zone_violation |-> zone_violation, suspicious |-> suspicious,
     last_ts |-> _alert_last_ts, alerts |-> alerts, attempts |-> attempts,
     events |-> tasks[sid].events, edges |-> {}, calls |-> << >>, posed |-> {}]

FrameDone(sid, live, st, frame_num) ==
    /\ overcrowding' = st.overcrowding
    /\ loitering' = st.loitering
    /\ zone_violation' = st.zone_violation
    /\ suspicious' = st.suspicious
    /\ _alert_last_ts' = st.last_ts
    /\ alerts' = st.alerts
    /\ attempts' = st.attempts
    /\ tasks' = [tasks EXCEPT ![sid].frame_num = frame_num,
                              ![sid].stage = "loop",
                              ![sid].events = st.events]
    /\ obs' = [op |-> IF live THEN "live_frame" ELSE "upload_frame",
               sid |-> sid,
               frame_number |-> frame_num,
               edges |-> st.edges,
               calls |-> st.calls,
               posed |-> st.posed,
               delivered |-> SubSeq(st.alerts, Len(alerts) + 1, Len(st.alerts))]

\* one iteration of the processing loop of session sid
Frame(sid, live, every, frames) ==
    /\ frame_count < frames
    /\ tasks[sid].stage = "loop"
    /\ \E detections \in ServerDetLists :
         \E pos \in [1..Len(trackers) -> ServerPredictions] :
            DeepSORT_update(Tup(detections), Tup(pos))
    /\ \E inp \in [Range(out'.ret) -> TrackInputs(tasks[sid].frame_num + 1, every)] :
         \E st \in {CheckAnomalies(FrameState(sid), live, every, out'.ret, inp,
                                   tasks[sid].frame_num + 1, now)} :
            FrameDone(sid, live, st, tasks[sid].frame_num + 1)
    /\ UNCHANGED <<manager_vars, max_age, min_hits, oc_calls, lt_fed, zv_last, now>>

\* websocket_endpoint, command start_stream
StartStream(sessions, configs) ==
    /\ ~UploadBusy
    /\ Len(tasks) < sessions
    /\ \E config \in configs :
         tasks' = Append(CancelLive(tasks, live_task),
                         NewTask("live", "created", config))
    /\ live_task' = Some(Len(tasks) + 1)
    /\ live_source' = Some("camera")
    /\ obs' = [op |-> "start_stream", sid |-> Len(tasks) + 1]
    /\ UNCHANGED <<manager_vars, suspicious, last_live_jpeg, out>>
    /\ UNCHANGED <<tracker_vars, overcrowding_vars, loitering_vars, zone_vars, alert_vars>>

\* websocket_endpoint, command stop_stream
StopStream ==
    /\ ~UploadBusy
    /\ tasks' = CancelLive(tasks, live_task)
    /\ live_task' = None
    /\ live_source' = None
    /\ obs' = [op |-> "stop_stream"]
    /\ UNCHANGED <<manager_vars, suspicious, last_live_jpeg, out>>
    /\ UNCHANGED <<tracker_vars, overcrowding_vars, loitering_vars, zone_vars, alert_vars>>

\* _run_live_stream up to its loop; the event loop runs what became ready
\* first, so a cancelled task's handler runs before a task created after it
LiveTaskBegin ==
    /\ ~UploadBusy
    /\ \E sid \in DOMAIN tasks :
         /\ tasks[sid].kind = "live"
         /\ tasks[sid].state = "created"
         /\ \A k \in 1..(sid - 1) : tasks[k].state # "cancelling"
         /\ \E cs \in {LiveConfigured(Components, tasks[sid].config)} :
              /\ tasks' = [tasks EXCEPT ![sid].state =
                                IF cs.raised THEN "done" ELSE "running",
                                        ![sid].begun = TRUE]
              /\ overcrowding' = cs.overcrowding
              /\ loitering' = cs.loitering
              /\ suspicious' = cs.suspicious
              /\ zone_violation' = cs.zone_violation
         /\ obs' = [op |-> "live_begin", sid |-> sid,
                    config |-> tasks[sid].config]
    /\ UNCHANGED <<manager_vars, live_task, live_source, last_live_jpeg, out>>
    /\ UNCHANGED <<tracker_vars, oc_calls, lt_fed, zv_last, alert_vars>>

\* _run_live_stream, one iteration that read a frame
LiveFrame(frames) ==
    /\ ~UploadBusy
    /\ \E sid \in DOMAIN tasks :
         /\ tasks[sid].kind = "live"
         /\ tasks[sid].state = "running"
         /\ Frame(sid, TRUE, 5, frames)
         /\ last_live_jpeg' = Some(<<sid, tasks[sid].frame_num + 1>>)
    /\ UNCHANGED <<live_task, live_source>>

\* _run_live_stream, "if not ret:" broadcast the error and leave the loop
LiveStreamEnds ==
    /\ ~UploadBusy
    /\ \E sid \in DOMAIN tasks :
         /\ tasks[sid].kind = "live"
         /\ tasks[sid].state = "running"
         /\ tasks[sid].stage = "loop"
         /\ tasks' = [tasks EXCEPT ![sid].state = "done"]
         /\ obs' = [op |-> "live_ended", sid |-> sid, broadcast |-> <<"error">>]
    /\ UNCHANGED <<manager_vars, suspicious, live_task, live_source, last_live_jpeg, out>>
    /\ UNCHANGED <<tracker_vars, overcrowding_vars, loitering_vars, zone_vars, alert_vars>>

\* _run_live_stream, "except asyncio.CancelledError:"
LiveCancelled ==
    /\ ~UploadBusy
    /\ \E sid \in DOMAIN tasks :
         /\ tasks[sid].state = "cancelling"
         /\ tasks' = [tasks EXCEPT ![sid].state = "done"]
         /\ obs' = [op |-> "live_cancelled", sid |-> sid]
    /\ last_live_jpeg' = None
    /\ UNCHANGED <<manager_vars, suspicious, live_task, live_source, out>>
    /\ UNCHANGED <<tracker_vars, overcrowding_vars, loitering_vars, zone_vars, alert_vars>>

\* analyze_video from the end of the file read to its loop
UploadBegin(sessions, requests) ==
    /\ ~UploadBusy
    /\ Len(tasks) < sessions
    /\ \E request \in requests :
         \E config \in {Parsed(request)} :
            /\ tasks' = Append(tasks, NewTask("upload", "running", config))
            /\ overcrowding' = UploadOvercrowding(overcrowding, config)
            /\ loitering' = UploadLoitering(loitering, config)
            /\ suspicious' = UploadSuspicious(suspicious, config)
            /\ zone_violation' = UploadZones(zone_violation, config)
            /\ obs' = [op |-> "upload_begin", sid |-> Len(tasks) + 1,
                       config |-> request]
    /\ UNCHANGED <<manager_vars, live_task, live_source, last_live_jpeg, out>>
    /\ UNCHANGED <<tracker_vars, oc_calls, lt_fed, zv_last, alert_vars>>

\* analyze_video, one iteration that read a frame
UploadFrame(frames) ==
    /\ \E sid \in DOMAIN tasks :
         /\ tasks[sid].kind = "upload"
         /\ tasks[sid].state = "running"
         /\ Frame(sid, FALSE, 10, frames)
    /\ UNCHANGED <<live_task, live_source, last_live_jpeg>>

\* analyze_video, "if not ret: break" to the return of the events
UploadEnd ==
    /\ \E sid \in DOMAIN tasks :
         /\ tasks[sid].kind = "upload"
         /\ tasks[sid].state = "running"
         /\ tasks' = [tasks EXCEPT ![sid].state = "done"]
         /\ obs' = [op |-> "upload_end", sid |-> sid, events |-> tasks[sid].events]
    /\ UNCHANGED <<manager_vars, suspicious, live_task, live_source, last_live_jpeg, out>>
    /\ UNCHANGED <<tracker_vars, overcrowding_vars, loitering_vars, zone_vars, alert_vars>>

\* websocket_endpoint, command update_config
UpdateConfig(configs) ==
    /\ ~UploadBusy
    /\ \E config \in configs :
         \E cs \in {ConfigUpdated(Components, config)} :
            /\ overcrowding' = cs.overcrowding
            /\ loitering' = cs.loitering
            /\ suspicious' = cs.suspicious
            /\ zone_violation' = cs.zone_violation
            /\ obs' = [op |-> "update_config", config |-> config]
    /\ UNCHANGED <<manager_vars, live_task, live_source, last_live_jpeg, tasks, out>>
    /\ UNCHANGED <<tracker_vars, oc_calls, lt_fed, zv_last, alert_vars>>

\* the wall clock moves while the server runs
Tick(steps) ==
    /\ \E d \in steps :
         /\ now + d \in StartTime..(StartTime + Horizon)
         /\ now' = now + d
    /\ obs' = [op |-> "clock"]
    /\ UNCHANGED <<manager_vars, suspicious, live_task, live_source, last_live_jpeg, tasks, out>>
    /\ UNCHANGED <<tracker_vars, overcrowding_vars, loitering_vars, zone_vars>>
    /\ UNCHANGED <<_alert_last_ts, alerts, attempts>>

InitServer ==
    /\ TrackerUnused
    /\ OvercrowdingUnused
    /\ LoiteringUnused
    /\ ZonesUnused
    /\ AlertsUnused
    /\ ServerUnused
    /\ ManagerUnused
    /\ out = [op |-> "init"]

NextServer ==
    \/ StartStream(MaxSessions, LiveConfigs)
    \/ StopStream
    \/ LiveTaskBegin
    \/ LiveFrame(ServerFrames)
    \/ LiveStreamEnds
    \/ LiveCancelled
    \/ UploadBegin(MaxSessions, UploadRequests)
    \/ UploadFrame(ServerFrames)
    \/ UploadEnd

SpecServer == InitServer /\ [][NextServer]_vars

\* C4: any two sessions run over distinct tracker and detector instances, so
\* that no session writes the frame counter or the track list another one
\* uses: after each frame of a session, the frame counter of the tracker it
\* used has counted the frames of that session and no others.
C4_SessionsIndependent ==
    obs.op \in {"live_frame", "upload_frame"}
        => frame_count = tasks[obs.sid].frame_num

\* session sid is not the first, and every other session so far was a live
\* session that was cancelled, by stop_stream or by start_stream
AfterCancelled(sid) ==
    /\ sid > 1
    /\ \A k \in DOMAIN tasks \ {sid} : tasks[k].kind = "live" /\ tasks[k].cancelled

\* C5: after a live session is cancelled, its preview buffer, tracker state
\* and anomaly state are discarded: the next live session that starts begins
\* with no tracks, frame counter 0, empty loitering and pose histories, the
\* overcrowding flag down, empty per-track edge sets, no debounce timestamps
\* and no preview.
C5_CancelledStateDiscarded ==
    (obs.op = "live_begin" /\ AfterCancelled(obs.sid))
        => /\ trackers = << >>
           /\ frame_count = 0
           /\ loitering.track_history = << >>
           /\ loitering.loitering_tracks = {}
           /\ suspicious.pose_history = << >>
           /\ suspicious.suspicious_tracks = {}
           /\ ~overcrowding.alert_active
           /\ zone_violation.violating_tracks = {}
           /\ _alert_last_ts = << >>
           /\ last_live_jpeg = None

----------------------------------------------------------------------------
(* One live stream, long enough for the pose history of a track to reach    *)
(* min_frames and be evaluated more than once, against the wall clock.      *)

LiveFrames == 15        \* frames of the live stream

NextLive ==
    \/ StartStream(1, LiveConfigs)
    \/ LiveTaskBegin
    \/ LiveFrame(LiveFrames)
    \/ Tick({_ALERT_COOLDOWN_SEC})

SpecLive == InitServer /\ [][NextLive]_vars

\* C6: on the live path an alert is delivered only if the detector's own
\* edge-trigger fired on that evaluation (and the debounce check passed):
\* every alert a live frame broadcasts is for an (event type, track) whose
\* detector returned alert_triggered during that frame.  In particular a
\* track that stays suspicious gets no second suspicious_activity alert.
C6_EdgeAndDebounce ==
    obs.op = "live_frame"
        => \A k \in DOMAIN obs.delivered :
              AlertKey(obs.delivered[k].event_type, obs.delivered[k].track_id)
                  \in obs.edges


----------------------------------------------------------------------------
(* The configuration boundary: update_config and start_stream messages and  *)
(* upload requests, some of them holding a malformed value.                 *)

ConfigSessions == 2     \* sessions started

ConfigMessages ==
    { [EmptyConfig EXCEPT !.overcrowding_threshold = Some(5)],
      [EmptyConfig EXCEPT !.loitering_time = Some(60), !.fps = Some(25)],
      [EmptyConfig EXCEPT !.restricted_zones = Some(<<Square>>)],
      [EmptyConfig EXCEPT !.overcrowding_threshold = Some(7),
                          !.loitering_distance = Malformed],
      [EmptyConfig EXCEPT !.loitering_time = Some(10), !.fps = Malformed],
      [EmptyConfig EXCEPT !.restricted_zones = Malformed],
      [EmptyConfig EXCEPT !.overcrowding_threshold = Some(0 - 1)] }

ConfigRequests ==
    { EmptyRequest,
      [EmptyRequest EXCEPT !.loitering_time = Some(60)],
      [EmptyRequest EXCEPT !.restricted_zones = Some(<<Square>>)],
      [EmptyRequest EXCEPT !.overcrowding_threshold = Some(7),
                           !.velocity_threshold = Malformed] }

NextConfig ==
    \/ UpdateConfig(ConfigMessages)
    \/ StartStream(ConfigSessions, ConfigMessages)
    \/ LiveTaskBegin
    \/ UploadBegin(ConfigSessions, ConfigRequests)
    \/ UploadEnd

SpecConfig == InitServer /\ [][NextConfig]_vars

\* what a configuration sets
Settings ==
    <<overcrowding.threshold, loitering.pixel_threshold,
      loitering.time_threshold, loitering.fps, loitering.frame_threshold,
      suspicious.velocity_threshold, zone_violation.zone_polygons>>

\* the keys that hold a number
NumericKeys ==
    {"overcrowding_threshold", "loitering_distance", "loitering_time", "fps",
     "velocity_threshold"}

\* a value of the wrong type, or a negative number
IsMalformed(config) ==
    \/ \E key \in DOMAIN config : Raises(config[key])
    \/ \E key \in DOMAIN config \cap NumericKeys :
          config[key] # None /\ Val(config[key]) < 0

\* C11: a configuration received through update_config, start_stream or an
\* upload request that holds a malformed value (wrong type or out of range)
\* is rejected as a whole: the overcrowding threshold, the loitering pixel,
\* time, fps and frame thresholds, the velocity threshold and the zones are
\* all as they were before it.
C11_MalformedRejected ==
    [][(/\ obs'.op \in {"update_config", "live_begin", "upload_begin"}
        /\ IsMalformed(obs'.config))
          => Settings' = Settings]_vars

\* C18: in every state reachable through construction and configuration
\* changes (upload config, start_stream config, update_config) the loitering
\* detector's frame_threshold is its time_threshold times its fps.
C18_FrameThreshold ==
    loitering.frame_threshold = loitering.time_threshold * loitering.fps

----------------------------------------------------------------------------
(* ConnectionManager: the set of accepted websockets and one broadcast at   *)
(* a time.  broadcast iterates the set itself and awaits inside the loop,   *)
(* so the handlers of other websockets run between two sends.  A set        *)
(* iterator remembers the size the set had when the loop began and raises   *)
(* RuntimeError from the for statement, outside the try, when the size it   *)
(* finds differs.  An element added during the loop lands before or after   *)
(* the iterator's position.                                                 *)

Conns == {"a", "b", "c"}    \* the websockets that may connect
MaxBroadcasts == 2          \* broadcast calls explored

Iterating == broadcast.state = "iterating"

Connect ==
    /\ \E websocket \in Conns \ accepted :
         /\ active_connections' = active_connections \cup {websocket}
         /\ accepted' = accepted \cup {websocket}
         /\ \E seen \in BOOLEAN :
              broadcast' = IF Iterating /\ seen
                           THEN [broadcast EXCEPT !.todo = @ \cup {websocket}]
                           ELSE broadcast
    /\ UNCHANGED <<server_vars, tracker_vars, overcrowding_vars, loitering_vars,
                   zone_vars, alert_vars, out>>

Disconnect ==
    /\ \E websocket \in active_connections :
         /\ active_connections' = active_connections \ {websocket}
         /\ broadcast' = IF Iterating
                         THEN [broadcast EXCEPT !.todo = @ \ {websocket}]
                         ELSE broadcast
    /\ UNCHANGED accepted
    /\ UNCHANGED <<server_vars, tracker_vars, overcrowding_vars, loitering_vars,
                   zone_vars, alert_vars, out>>

BroadcastBegin ==
    /\ ~Iterating
    /\ broadcast.n < MaxBroadcasts
    /\ broadcast' = [state |-> "iterating", n |-> broadcast.n + 1,
                     size |-> Cardinality(active_connections),
                     started |-> active_connections, todo |-> active_connections,
                     attempted |-> {}, failed |-> {}, succeeded |-> {}]
    /\ UNCHANGED <<active_connections, accepted>>
    /\ UNCHANGED <<server_vars, tracker_vars, overcrowding_vars, loitering_vars,
                   zone_vars, alert_vars, out>>

SizeChanged == Cardinality(active_connections) # broadcast.size

BroadcastSend ==
    /\ Iterating
    /\ ~SizeChanged
    /\ \E connection \in broadcast.todo, sent \in BOOLEAN :
         broadcast' = [broadcast EXCEPT
                          !.todo = @ \ {connection},
                          !.attempted = @ \cup {connection},
                          !.succeeded = IF sent THEN @ \cup {connection} ELSE @,
                          !.failed = IF sent THEN @ ELSE @ \cup {connection}]
    /\ UNCHANGED <<active_connections, accepted>>
    /\ UNCHANGED <<server_vars, tracker_vars, overcrowding_vars, loitering_vars,
                   zone_vars, alert_vars, out>>

BroadcastRaise ==
    /\ Iterating
    /\ SizeChanged
    /\ broadcast' = [broadcast EXCEPT !.state = "raised"]
    /\ UNCHANGED <<active_connections, accepted>>
    /\ UNCHANGED <<server_vars, tracker_vars, overcrowding_vars, loitering_vars,
                   zone_vars, alert_vars, out>>

BroadcastEnd ==
    /\ Iterating
    /\ ~SizeChanged
    /\ broadcast.todo = {}
    /\ active_connections' = active_connections \ broadcast.failed
    /\ broadcast' = [broadcast EXCEPT !.state = "done"]
    /\ UNCHANGED accepted
    /\ UNCHANGED <<server_vars, tracker_vars, overcrowding_vars, loitering_vars,
                   zone_vars, alert_vars, out>>

InitBroadcast ==
    /\ TrackerUnused
    /\ OvercrowdingUnused
    /\ LoiteringUnused
    /\ ZonesUnused
    /\ AlertsUnused
    /\ ServerUnused
    /\ ManagerUnused
    /\ out = [op |-> "init"]

NextBroadcast ==
    \/ Connect
    \/ Disconnect
    \/ BroadcastBegin
    \/ BroadcastSend
    \/ BroadcastRaise
    \/ BroadcastEnd

SpecBroadcast == InitBroadcast /\ [][NextBroadcast]_vars

BroadcastReturns ==
    /\ Iterating
    /\ broadcast'.state \in {"done", "raised"}

\* C12: when a broadcast in which some send failed comes to its end, every
\* connection that was active when it started and is still connected has
\* had a send attempt, no connection whose send failed is left in the
\* active set, and the broadcast has removed no connection whose send
\* succeeded.
C12_BroadcastIsolatesFailures ==
    [][(BroadcastReturns /\ broadcast'.failed # {}) =>
          /\ (broadcast'.started \cap active_connections') \subseteq broadcast'.attempted
          /\ broadcast'.failed \cap active_connections' = {}
          /\ (broadcast'.succeeded \cap active_connections) \subseteq active_connections'
      ]_vars

----------------------------------------------------------------------------
(* Cancellation inside a frame.  An iteration of the live loop suspends     *)
(* after the tracker update, at "await send_detection_update", before the   *)
(* anomaly evaluation, and again at the "await asyncio.sleep(0)" that ends  *)
(* it; the websocket handler runs, and cancels, at either point.            *)

CancelSessions == 2     \* live sessions started
CancelFrames == 3       \* tracker updates explored

\* _run_live_stream, from vs.read() to "await send_detection_update"
LiveTracked(frames) ==
    /\ frame_count < frames
    /\ \E sid \in DOMAIN tasks :
         /\ tasks[sid].kind = "live"
         /\ tasks[sid].state = "running"
         /\ tasks[sid].stage = "loop"
         /\ \E detections \in ServerDetLists :
              \E pos \in [1..Len(trackers) -> ServerPredictions] :
                 DeepSORT_update(Tup(detections), Tup(pos))
         /\ tasks' = [tasks EXCEPT ![sid].frame_num = @ + 1,
                                   ![sid].stage = "frame"]
         /\ obs' = [op |-> "live_tracked", sid |-> sid,
                    frame_number |-> tasks[sid].frame_num + 1]
    /\ UNCHANGED <<manager_vars, max_age, min_hits, overcrowding_vars, loitering_vars,
                   zone_vars, alert_vars>>
    /\ UNCHANGED <<suspicious, live_task, live_source, last_live_jpeg>>

\* _run_live_stream, from the preview to "await asyncio.sleep(0)"
LiveChecked ==
    /\ \E sid \in DOMAIN tasks :
         /\ tasks[sid].kind = "live"
         /\ tasks[sid].state = "running"
         /\ tasks[sid].stage = "frame"
         /\ \E inp \in [Range(out.ret) -> TrackInputs(tasks[sid].frame_num, 5)] :
              \E st \in {CheckAnomalies(FrameState(sid), TRUE, 5, out.ret, inp,
                                        tasks[sid].frame_num, now)} :
                 FrameDone(sid, TRUE, st, tasks[sid].frame_num)
         /\ last_live_jpeg' = Some(<<sid, tasks[sid].frame_num>>)
    /\ UNCHANGED <<manager_vars, tracker_vars, oc_calls, lt_fed, zv_last, now>>
    /\ UNCHANGED <<live_task, live_source, out>>

NextCancel ==
    \/ StartStream(CancelSessions, LiveConfigs)
    \/ StopStream
    \/ LiveTaskBegin
    \/ LiveTracked(CancelFrames)
    \/ LiveChecked
    \/ LiveStreamEnds
    \/ LiveCancelled

SpecCancel == InitServer /\ [][NextCancel]_vars

\* the step is a tracker update or an anomaly evaluation of session sid
FrameStepOf(sid) ==
    /\ obs' # obs
    /\ obs'.op \in {"live_tracked", "live_frame"}
    /\ obs'.sid = sid

\* C13: a live task cancelled by stop_stream or by a superseding
\* start_stream performs no further tracker update and no further anomaly
\* evaluation, also when it was cancelled inside a frame, after the tracker
\* update of that frame; from then on it is ending or has ended.
C13_CancelledTaskStops ==
    [][\A sid \in DOMAIN tasks :
          tasks[sid].cancelled =>
             /\ ~FrameStepOf(sid)
             /\ tasks'[sid].state \in {"cancelling", "done"}
             /\ tasks'[sid].frame_num = tasks[sid].frame_num]_vars

\* a task cancelled inside its first frame has ended without evaluating
\* it, and the session that superseded it has completed a frame
C13_Witness ==
    /\ Len(tasks) = 2
    /\ tasks[1].cancelled
    /\ tasks[1].state = "done"
    /\ tasks[1].stage = "frame"
    /\ obs.op = "live_frame"
    /\ obs.sid = 2

----------------------------------------------------------------------------
(* The association alone: _associate_detections_to_trackers applied to any  *)
(* IOU matrix of up to two detections and two trackers, with entries below, *)
(* at and above iou_threshold.                                              *)

IouValues == {0, 299, 300, 301, 900}    \* IOU entries, in thousandths

IouMatrices(D, T) == [1..D -> [1..T -> IouValues]]

\* one call; out keeps the matrix, the candidate pairs and the result
Associate ==
    /\ \E D \in DetCounts, T \in 0..MaxIds :
         \E iou \in IouMatrices(D, T) :
            \E r \in _associate_detections_to_trackers(Tup(iou), D, T),
               mi \in (IF T = 0 THEN {<< >>} ELSE MatchedIndices(Tup(iou), D, T)) :
               /\ T > 0 => r = AssociateWith(Tup(iou), D, T, mi)
               /\ out' = [op |-> "associate", iou |-> iou, D |-> D, T |-> T,
                          matched_indices |-> mi, ret |-> r]
    /\ UNCHANGED <<manager_vars, server_vars, tracker_vars, overcrowding_vars,
                   loitering_vars, zone_vars, alert_vars>>

InitAssociation ==
    /\ TrackerUnused
    /\ OvercrowdingUnused
    /\ LoiteringUnused
    /\ ZonesUnused
    /\ AlertsUnused
    /\ ServerUnused
    /\ ManagerUnused
    /\ out = [op |-> "init"]

NextAssociation == Associate

SpecAssociation == InitAssociation /\ [][NextAssociation]_vars

IouAt(m) == out.iou[m[1]][m[2]]

\* C14: every matched pair returned by the association has an IOU of at
\* least iou_threshold, and every candidate pair whose IOU is below
\* iou_threshold has its detection among the unmatched detections and its
\* track among the unmatched tracks.
C14_LowIouRejected ==
    out.op = "associate" =>
        /\ \A k \in DOMAIN out.ret.matches :
              IouAt(out.ret.matches[k]) >= iou_threshold
        /\ \A k \in DOMAIN out.matched_indices :
              IouAt(out.matched_indices[k]) < iou_threshold =>
                 /\ out.matched_indices[k][1] \in Range(out.ret.unmatched_detections)
                 /\ out.matched_indices[k][2] \in Range(out.ret.unmatched_trackers)

\* two candidate pairs, one kept with an IOU above the threshold and one
\* rejected with an IOU just below it
C14_Witness ==
    /\ out.op = "associate"
    /\ Len(out.matched_indices) = 2
    /\ Len(out.ret.matches) = 1
    /\ \E k \in DOMAIN out.matched_indices : IouAt(out.matched_indices[k]) = 299
    /\ IouAt(out.ret.matches[1]) = 900

\* C15: when the matrix "IOU > iou_threshold" has at most one set bit in
\* every row and every column, no set bit at all included, the matched
\* pairs returned are exactly the positions of the set bits.
C15_FastPathExact ==
    (/\ out.op = "associate"
     /\ out.T > 0
     /\ \A d \in 1..out.D :
          Cardinality({p \in SetBits(out.iou, out.D, out.T) : p[1] = d}) <= 1
     /\ \A t \in 1..out.T :
          Cardinality({p \in SetBits(out.iou, out.D, out.T) : p[2] = t}) <= 1)
        => Range(out.ret.matches) = SetBits(out.iou, out.D, out.T)

----------------------------------------------------------------------------
(* The tracker alone, continued: what one update call does, told from the   *)
(* detections and the predictions it was given.                             *)

\* the step is update(detections) with predict() returning pos
UpdateWith(detections, pos) == DeepSORT_update(Tup(detections), Tup(pos))

Fresh(t) == t.hits = 0 /\ t.hit_streak = 0 /\ t.time_since_update = 0

\* C16: update on an empty live set with n detections matches nothing and
\* constructs exactly n trackers, with n distinct ids, which make up the
\* live set afterwards, each with hits = 0, hit_streak = 0 and
\* time_since_update = 0; one detection gives exactly one track.
C16_EmptyLiveSet ==
    [][\A detections \in DetLists :
          (trackers = << >> /\ UpdateWith(detections, << >>)) =>
             /\ out'.matched = {}
             /\ Len(out'.created) = Len(detections)
             /\ Cardinality(Range(out'.created)) = Len(detections)
             /\ IdSeq(trackers') = out'.created
             /\ \A k \in DOMAIN trackers' : Fresh(trackers'[k])]_vars

\* the first update, with one detection, has created one track
C16_Witness ==
    /\ out.op = "update"
    /\ frame_count = 1
    /\ Len(out.created) = 1
    /\ Len(trackers) = 1
    /\ Fresh(trackers[1])

NonFinite(pos) == {t \in DOMAIN pos : pos[t].kind # "fin"}

\* C17: a live track whose predicted box holds a NaN or an infinity is
\* removed from the live set by the update, is not matched and is not
\* reported on that frame.
C17_NonFiniteDropped ==
    [][\A detections \in DetLists :
          \A pos \in [1..Len(trackers) -> Predictions] :
             UpdateWith(detections, pos) =>
                \A t \in NonFinite(pos) :
                   /\ trackers[t].id \notin Ids(trackers')
                   /\ trackers[t].id \notin out'.matched
                   /\ trackers[t].id \notin Range(out'.ret)]_vars

----------------------------------------------------------------------------
(* The two per-track buffers: one LoiteringDetector and one                 *)
(* SuspiciousActivityDetector, each fed past its cap.  An entry carries the *)
(* number of the call that appended it, so the entries kept are told apart. *)
(* Track 1 is fed past the cap, track 2 a few times beside it.              *)

HistoryCalls == 105     \* calls per buffer of track 1 (the caps are 102 and 100)
SideCalls == 2          \* calls per buffer of track 2
HistoryTracks == {1, 2}

CallsOf(track_id) == IF track_id = 1 THEN HistoryCalls ELSE SideCalls

\* the number of the next call: one more than the newest entry's
NextEntry(history, c) == IF history = << >> THEN 0 ELSE history[Len(history)][c] + 1

HistoryTrack ==
    /\ \E track_id \in HistoryTracks :
         \E frame_num \in {NextEntry(HistoryOf(loitering, track_id), 3)} :
            /\ frame_num < CallsOf(track_id)
            /\ loitering' = update_track(loitering, track_id, <<100, 100>>, frame_num)
            /\ out' = [op |-> "update_track", track_id |-> track_id,
                       before |-> HistoryOf(loitering, track_id),
                       entry |-> <<100, 100, frame_num>>]
    /\ UNCHANGED <<manager_vars, server_vars, tracker_vars, overcrowding_vars,
                   lt_fed, zone_vars, alert_vars>>

HistoryPose ==
    /\ \E track_id \in HistoryTracks :
         \E keypoints \in {<<NextEntry(PoseOf(suspicious, track_id), 1)>>} :
            /\ keypoints[1] < CallsOf(track_id)
            /\ suspicious' = update_pose_history(suspicious, track_id, keypoints)
            /\ out' = [op |-> "update_pose_history", track_id |-> track_id,
                       before |-> PoseOf(suspicious, track_id),
                       entry |-> keypoints]
    /\ UNCHANGED <<manager_vars, live_task, live_source, last_live_jpeg, tasks, obs,
                   tracker_vars, overcrowding_vars, loitering_vars, zone_vars,
                   alert_vars>>

InitHistory ==
    /\ TrackerUnused
    /\ OvercrowdingUnused
    /\ loitering = LoiteringDetector_init(50, 1, 2)
    /\ lt_fed = << >>
    /\ ZonesUnused
    /\ AlertsUnused
    /\ ServerUnused
    /\ ManagerUnused
    /\ out = [op |-> "init"]

NextHistory == HistoryTrack \/ HistoryPose

SpecHistory == InitHistory /\ [][NextHistory]_vars

\* `after` is `before` with `entry` appended, cut to its `cap` most recent
\* entries, in the order they arrived
KeepsMostRecent(after, before, entry, cap) ==
    /\ Len(after) = Min(Len(before) + 1, cap)
    /\ \A i \in DOMAIN after :
          after[i] = Append(before, entry)[Len(before) + 1 - Len(after) + i]

\* C19: for a detector with frame_threshold >= 0, after every update_track
\* call the track's history holds at most frame_threshold + 100 entries,
\* and after every update_pose_history call the track's pose history holds
\* at most 100; the entries held are the most recent ones, the new entry
\* last, in the order they arrived, so what is dropped is the oldest.
C19_BuffersCapped ==
    /\ out.op = "update_track" =>
          /\ Len(HistoryOf(loitering, out.track_id)) <= loitering.frame_threshold + 100
          /\ KeepsMostRecent(HistoryOf(loitering, out.track_id), out.before,
                             out.entry, loitering.frame_threshold + 100)
    /\ out.op = "update_pose_history" =>
          /\ Len(PoseOf(suspicious, out.track_id)) <= 100
          /\ KeepsMostRecent(PoseOf(suspicious, out.track_id), out.before,
                             out.entry, 100)

\* both buffers of track 1 have been full and then fed again: each has
\* dropped its oldest entries
C19_Witness ==
    /\ Len(HistoryOf(loitering, 1)) = loitering.frame_threshold + 100
    /\ HistoryOf(loitering, 1)[1][3] > 0
    /\ Len(PoseOf(suspicious, 1)) = 100
    /\ PoseOf(suspicious, 1)[1][1] > 0
    /\ out.op = "update_pose_history"
    /\ out.track_id = 1
    /\ Len(out.before) = 100

----------------------------------------------------------------------------
(* The evaluations of one frame, on the live path and on the upload path    *)

\* how often the frame evaluated event_type for track_id
Evaluations(event_type, track_id) ==
    Cardinality({k \in DOMAIN obs.calls : obs.calls[k] = AlertKey(event_type, track_id)})

\* C20: a processed frame evaluates overcrowding exactly once, loitering
\* and zone violation exactly once for every track the tracker reported on
\* it, suspicious activity exactly once for every reported track whose pose
\* was extracted, and nothing else, on the live path and on the upload
\* path.
C20_EvaluatedOncePerFrame ==
    obs.op \in {"live_frame", "upload_frame"} =>
        /\ Evaluations("overcrowding", None) = 1
        /\ \A track_id \in Range(out.ret) :
              /\ Evaluations("loitering", Some(track_id)) = 1
              /\ Evaluations("zone_violation", Some(track_id)) = 1
        /\ \A track_id \in obs.posed :
              Evaluations("suspicious_activity", Some(track_id)) = 1
        /\ Len(obs.calls) = 1 + 2 * Len(out.ret) + Cardinality(obs.posed)

----------------------------------------------------------------------------
(* detect_fight_like_motion on a keypoints sequence.  A pose is a function  *)
(* from the joints 0..32 to <<x, y, visibility>>, positions in tenths of a  *)
(* pixel and visibility 0 or 1; a velocity is kept doubled, as              *)
(* dist * (prev visibility + curr visibility), so that it stays an integer. *)

NumJoints == 33

Joints == 0..(NumJoints - 1)

arm_indices == {11, 12, 13, 14, 15, 16}

Abs(x) == IF x < 0 THEN 0 - x ELSE x

\* np.linalg.norm of (dx, dy): exact along an axis, rounded down otherwise
Norm(dx, dy) ==
    IF dy = 0 THEN Abs(dx)
    ELSE IF dx = 0 THEN Abs(dy)
    ELSE CHOOSE r \in 0..(Abs(dx) + Abs(dy)) :
            r * r <= dx * dx + dy * dy /\ dx * dx + dy * dy < (r + 1) * (r + 1)

\* twice dist * visibility of joint j between two poses
JointVelocity(prev_kp, curr_kp, j) ==
    Norm(curr_kp[j][1] - prev_kp[j][1], curr_kp[j][2] - prev_kp[j][2])
        * (prev_kp[j][3] + curr_kp[j][3])

\* the velocities of the joints of `indices`, for the transition into
\* frame i and joint j, as a function of <<i, j>>
_calculate_specific_joint_velocities(keypoints_sequence, indices) ==
    [p \in (2..Len(keypoints_sequence)) \X indices |->
        JointVelocity(keypoints_sequence[p[1] - 1], keypoints_sequence[p[1]], p[2])]

_calculate_joint_velocities(keypoints_sequence) ==
    _calculate_specific_joint_velocities(keypoints_sequence, Joints)

\* the sum of velocities[<<i, j>>] over the joints j .. last
RECURSIVE TransitionSum(_, _, _, _)
TransitionSum(velocities, i, j, last) ==
    IF j > last THEN 0
    ELSE velocities[<<i, j>>] + TransitionSum(velocities, i, j + 1, last)

\* the sum over the transitions into the frames i .. frames and the joints
\* first .. last
RECURSIVE VelocitySum(_, _, _, _, _)
VelocitySum(velocities, i, first, last, frames) ==
    IF i > frames THEN 0
    ELSE TransitionSum(velocities, i, first, last)
            + VelocitySum(velocities, i + 1, first, last, frames)

\* is_suspicious from the velocities of all joints and of the arm joints,
\* for the threshold vt in tenths of a pixel per frame
SuspiciousMotion(velocities, arm_velocities, frames, vt) ==
    \E n \in {Cardinality(DOMAIN velocities)},
       exceed \in {Cardinality({p \in DOMAIN velocities : velocities[p] > 2 * vt})},
       total \in {VelocitySum(velocities, 2, 0, NumJoints - 1, frames)},
       arm_total \in {VelocitySum(arm_velocities, 2, 11, 16, frames)} :
        /\ n > 0
        /\ \/ /\ \E p \in DOMAIN velocities : 10 * velocities[p] > 24 * vt
              /\ 10 * total > 12 * vt * n
              /\ 4 * exceed >= n
           \/ /\ 10 * arm_total > 28 * vt * Cardinality(DOMAIN arm_velocities)
              /\ 5 * exceed >= n

\* the analysis of the window keypoints_sequence[-min_frames:]
AnalyzedWindow(self, window) ==
    SuspiciousMotion(_calculate_joint_velocities(window),
                     _calculate_specific_joint_velocities(window, arm_indices),
                     Len(window), self.velocity_threshold)

\* the analysis run on the whole sequence instead of its last min_frames
detect_fight_like_motion_whole(self, keypoints_sequence) ==
    IF Len(keypoints_sequence) < self.min_frames
    THEN [is_suspicious |-> FALSE,
          frames_analyzed |-> Len(keypoints_sequence),
          alert_triggered |-> FALSE]
    ELSE [is_suspicious |-> AnalyzedWindow(self, keypoints_sequence),
          frames_analyzed |-> Len(keypoints_sequence),
          alert_triggered |-> FALSE]

\* detect_fight_like_motion(keypoints_sequence), track_id None
detect_fight_like_motion_sequence(self, keypoints_sequence) ==
    IF Len(keypoints_sequence) < self.min_frames
    THEN [is_suspicious |-> FALSE,
          frames_analyzed |-> Len(keypoints_sequence),
          alert_triggered |-> FALSE]
    ELSE [is_suspicious |-> AnalyzedWindow(self, LastN(keypoints_sequence,
                                                       self.min_frames)),
          frames_analyzed |-> Len(keypoints_sequence),
          alert_triggered |-> FALSE]

(* The sequences explored: every joint moves along x by a constant step per *)
(* frame, the arm joints by arm_step with visibility 1, the other joints by *)
(* other_step with visibility other_vis; the oldest frame is displaced by   *)
(* `jump`.                                                                  *)

ArmSteps == {0, 200, 1000}      \* 0, 20 and 100 pixels per frame
OtherSteps == {0, 200, 1000}
SequenceLengths == {9, 10, 11}  \* min_frames is 10
Jumps == {0, 5000}

PoseAt(k, arm_step, other_step, other_vis, jump) ==
    [j \in Joints |->
        IF j \in arm_indices
        THEN <<arm_step * k + (IF k = 1 THEN jump ELSE 0), 0, 1>>
        ELSE <<other_step * k + (IF k = 1 THEN jump ELSE 0), 0, other_vis>>]

PoseSequence(n, arm_step, other_step, other_vis, jump) ==
    Tup([k \in 1..n |-> PoseAt(k, arm_step, other_step, other_vis, jump)])

\* a call with a sequence neither reads nor writes the buffers: it is
\* explored on the detector whose buffers are still empty
DetectMotion ==
    /\ suspicious.pose_history = << >>
    /\ \E n \in SequenceLengths, arm_step \in ArmSteps, other_step \in OtherSteps,
          other_vis \in {0, 1}, jump \in Jumps :
         \E keypoints_sequence \in
                {PoseSequence(n, arm_step, other_step, other_vis, jump)} :
            out' = [op |-> "detect_fight_like_motion",
                    frames |-> n, arm_step |-> arm_step, other_step |-> other_step,
                    other_vis |-> other_vis, jump |-> jump,
                    ret |-> detect_fight_like_motion_sequence(suspicious,
                                                              keypoints_sequence),
                    recent |-> detect_fight_like_motion_sequence(suspicious,
                                  SubSeq(keypoints_sequence,
                                         Max(1, n - suspicious.min_frames + 1), n))]
    /\ UNCHANGED <<manager_vars, server_vars, tracker_vars, overcrowding_vars,
                   loitering_vars, zone_vars, alert_vars>>

MotionPoses == 11       \* poses fed to the buffer of the track

\* update_pose_history for track 1
FeedPose ==
    /\ PoseLen(suspicious, 1) < MotionPoses
    /\ suspicious' = update_pose_history(suspicious, 1, "keypoints")
    /\ out' = [op |-> "update_pose_history"]
    /\ UNCHANGED <<manager_vars, live_task, live_source, last_live_jpeg, tasks, obs,
                   tracker_vars, overcrowding_vars, loitering_vars, zone_vars,
                   alert_vars>>

\* detect_fight_like_motion(track_id=1) on the buffer of track 1
DetectTrackMotion ==
    /\ \E motion \in Motions :
         /\ suspicious' = detect_fight_like_motion_self(suspicious, 1, motion)
         /\ out' = [op |-> "detect_track_motion",
                    frames |-> PoseLen(suspicious, 1),
                    before |-> suspicious.suspicious_tracks,
                    ret |-> detect_fight_like_motion(suspicious, 1, motion)]
    /\ UNCHANGED <<manager_vars, live_task, live_source, last_live_jpeg, tasks, obs,
                   tracker_vars, overcrowding_vars, loitering_vars, zone_vars,
                   alert_vars>>

InitMotion ==
    /\ TrackerUnused
    /\ OvercrowdingUnused
    /\ LoiteringUnused
    /\ ZonesUnused
    /\ AlertsUnused
    /\ ServerUnused
    /\ ManagerUnused
    /\ out = [op |-> "init"]

NextMotion == DetectMotion \/ FeedPose \/ DetectTrackMotion

SpecMotion == InitMotion /\ [][NextMotion]_vars

\* C21: a sequence of at least min_frames poses in which every arm joint
\* moves, with visibility 1, by 100 pixels on every frame transition (the
\* threshold times 1.4 is 21 pixels) is found suspicious, whatever the
\* other joints do.
C21_ArmMotionSuspicious ==
    (/\ out.op = "detect_fight_like_motion"
     /\ out.frames >= suspicious.min_frames
     /\ out.arm_step = 1000
     /\ out.jump = 0)
        => out.ret.is_suspicious

\* C26: with fewer than min_frames poses detect_fight_like_motion returns
\* is_suspicious False and alert_triggered False, and for a track it leaves
\* suspicious_tracks as it was; with min_frames poses or more, is_suspicious
\* is what the last min_frames poses alone give (frames_analyzed stays the
\* length of the whole buffer).
C26_RecentWindow ==
    /\ out.op = "detect_fight_like_motion" =>
          /\ out.frames < suspicious.min_frames =>
                ~out.ret.is_suspicious /\ ~out.ret.alert_triggered
          /\ out.frames >= suspicious.min_frames =>
                out.ret.is_suspicious = out.recent.is_suspicious
    /\ (out.op = "detect_track_motion" /\ out.frames < suspicious.min_frames) =>
          /\ ~out.ret.is_suspicious
          /\ ~out.ret.alert_triggered
          /\ suspicious.suspicious_tracks = out.before

\* eleven poses whose oldest one would make the sequence suspicious: the
\* arms alone move in the last ten
C26_Witness ==
    /\ out.op = "detect_fight_like_motion"
    /\ out.frames = 11
    /\ out.jump = 5000
    /\ out.arm_step = 1000
    /\ out.other_step = 0
    /\ out.other_vis = 1
    /\ ~out.ret.is_suspicious

----------------------------------------------------------------------------
(* The live path's handling of one suspicious-activity candidate: the       *)
(* detector's result for track 1, classified and gated against the distance *)
(* to the nearest other track.  Velocities are in tenths of a pixel per     *)
(* frame, frac_exceed in hundredths, distances in pixels, kept squared.     *)

GateMotions ==
    { m \in [max_velocity : {100, 200, 400},
             mean_velocity : {50, 100, 200},
             arm_velocity : {100, 170, 200, 400},
             frac_exceed : {10, 25, 40, 60}] :
        m.mean_velocity <= m.max_velocity /\ m.arm_velocity <= m.max_velocity }

GateDistances == {None} \cup {Some(d * d) : d \in {50, 70, 100, 130, 150}}

\* "if frame_num % 5 == 0:" for a track with a pose, up to the alert
LiveCandidate ==
    /\ \E motion \in GateMotions, min_dist \in GateDistances :
         \E r \in {detect_fight_like_motion(suspicious, 1, motion)} :
            /\ suspicious' = detect_fight_like_motion_self(suspicious, 1, motion)
            /\ out' = [op |-> "live_candidate",
                       ret |-> r,
                       min_dist |-> min_dist,
                       subtype |-> IF r.is_suspicious
                                   THEN Some(Subtype(suspicious.velocity_threshold,
                                                     r, min_dist))
                                   ELSE None,
                       reliability |-> IF r.is_suspicious
                                       THEN ReliabilityScaled(
                                                suspicious.velocity_threshold,
                                                r, min_dist)
                                       ELSE 0,
                       emitted |-> LiveAlertTriggered(suspicious.velocity_threshold,
                                                      r, min_dist)]
    /\ UNCHANGED <<manager_vars, live_task, live_source, last_live_jpeg, tasks, obs,
                   tracker_vars, overcrowding_vars, loitering_vars, zone_vars,
                   alert_vars>>

NextGate == FeedPose \/ LiveCandidate

SpecGate == InitMotion /\ [][NextGate]_vars

Candidate == out.op = "live_candidate" /\ out.ret.is_suspicious

NearestWithin(limit) == out.min_dist # None /\ Val(out.min_dist) < limit * limit

FightRule ==
    /\ out.ret.max_velocity > suspicious.velocity_threshold
    /\ 10 * out.ret.arm_velocity > 12 * suspicious.velocity_threshold

IntimacyRule ==
    /\ NearestWithin(60)
    /\ 10 * out.ret.mean_velocity < 4 * suspicious.velocity_threshold

CrueltyRule ==
    /\ out.ret.arm_velocity > suspicious.velocity_threshold
    /\ NearestWithin(80)

\* C22: the subtype of a suspicious candidate on the live path is the first
\* rule that matches, in the order fight, intimacy, cruelty, otherwise
\* suspicious; with no other active track it is neither intimacy nor
\* cruelty.
C22_SubtypeOrder ==
    Candidate =>
        /\ out.subtype = Some(IF FightRule THEN "fight"
                              ELSE IF IntimacyRule THEN "intimacy"
                              ELSE IF CrueltyRule THEN "cruelty"
                              ELSE "suspicious")
        /\ out.min_dist = None => out.subtype \notin {Some("intimacy"), Some("cruelty")}

\* a candidate that the fight rule does not match and the cruelty rule does
C22_Witness ==
    /\ Candidate
    /\ out.subtype = Some("cruelty")
    /\ out.ret.max_velocity > suspicious.velocity_threshold

\* reliability >= tenths / 10, with out.reliability scaled by 3500 * 24 * vt
ReliableBy(tenths) ==
    out.reliability >= tenths * 350 * 24 * suspicious.velocity_threshold

----------------------------------------------------------------------------
(* The two zone lists of the ZoneViolationDetector                          *)

Containing(pt) ==
    {i - 1 : i \in {j \in DOMAIN zone_violation.zone_polygons :
                        _point_in_polygon(pt, zone_violation.zone_polygons[j])}}

\* C25: detect_zone_violation returns is_violation True exactly when the point
\* is contained in at least one configured zone, and violated_zones is the
\* ascending list of the indices of all the zones that contain it; with the
\* square (100,100)-(200,100)-(200,200)-(100,200) as a zone, (150,150) is a
\* violation, and (300,300) is none when the square is the only zone; and on
\* a point that is on no edge of a simple polygon, point_in_polygon_manual
\* returns what the containment test of detect_zone_violation returns.
C25_ContainmentReported ==
    /\ out.op = "detect_zone_violation" =>
          /\ out.ret.is_violation = (Containing(out.center_point) # {})
          /\ out.ret.violated_zones = AscSeq(Containing(out.center_point))
          /\ (out.center_point = <<150, 150>>
                /\ \E i \in DOMAIN zone_violation.restricted_zones :
                      zone_violation.restricted_zones[i] = Square)
                => out.ret.is_violation
          /\ (out.center_point = <<300, 300>>
                /\ zone_violation.restricted_zones = <<Square>>)
                => ~out.ret.is_violation
    /\ (out.op = "point_in_polygon_manual" /\ ~OnBoundary(out.point, out.polygon)) =>
          out.ret = _point_in_polygon(out.point, Polygon(out.polygon))

\* a point was found in both of two zones
C25_Witness ==
    /\ out.op = "detect_zone_violation"
    /\ out.ret.violated_zones = <<0, 1>>

\* the ray through the vertex of the notch: a point inside the pentagon
\* whose height is the height of the vertex
C25_WitnessManual ==
    /\ out.op = "point_in_polygon_manual"
    /\ out.polygon = Notch
    /\ out.point = <<150, 200>>
    /\ out.ret

----------------------------------------------------------------------------
(* Failures of the collaborators of a live session.  PersonDetector() is    *)
(* constructed by the first session that needs it, before the try           *)
(* statement of _run_live_stream; detect_people is called inside it.  A     *)
(* failure of extract_pose is caught by the same handler as a failure of    *)
(* detect_people and is not drawn here.                                     *)

FailureSessions == 3    \* live sessions started
FailureFrames == 3      \* frames the tracker is given, over all sessions

\* _run_live_stream, "detector = app_state.get('detector') or
\* PersonDetector()" raises: the exception leaves the coroutine
LiveSetupFails ==
    /\ ~UploadBusy
    /\ \E sid \in DOMAIN tasks :
         /\ tasks[sid].kind = "live"
         /\ tasks[sid].state = "created"
         /\ \A k \in 1..(sid - 1) : tasks[k].state # "cancelling"
         /\ ~DetectorLoaded(tasks)
         /\ tasks' = [tasks EXCEPT ![sid].state = "done"]
         /\ obs' = [op |-> "live_failed", sid |-> sid, at |-> "setup",
                    broadcast |-> << >>]
    /\ UNCHANGED <<manager_vars, suspicious, live_task, live_source, last_live_jpeg, out>>
    /\ UNCHANGED <<tracker_vars, overcrowding_vars, loitering_vars, zone_vars, alert_vars>>

\* _run_live_stream, an iteration in which detector.detect_people(frame)
\* raises, or VideoStream(source) before the first: "except Exception as e:"
\* broadcasts the error and the coroutine returns
LiveDetectionFails ==
    /\ ~UploadBusy
    /\ \E sid \in DOMAIN tasks :
         /\ tasks[sid].kind = "live"
         /\ tasks[sid].state = "running"
         /\ tasks[sid].stage = "loop"
         /\ tasks' = [tasks EXCEPT ![sid].state = "done"]
         /\ obs' = [op |-> "live_failed", sid |-> sid, at |-> "loop",
                    broadcast |-> <<"error">>]
    /\ UNCHANGED <<manager_vars, suspicious, live_task, live_source, last_live_jpeg, out>>
    /\ UNCHANGED <<tracker_vars, overcrowding_vars, loitering_vars, zone_vars, alert_vars>>

NextFailure ==
    \/ StartStream(FailureSessions, LiveConfigs)
    \/ StopStream
    \/ LiveTaskBegin
    \/ LiveSetupFails
    \/ LiveTracked(FailureFrames)
    \/ LiveChecked
    \/ LiveDetectionFails
    \/ LiveStreamEnds
    \/ LiveCancelled

SpecFailure == InitServer /\ [][NextFailure]_vars

\* C27: when the detector cannot be had or raises, or no frame can be read,
\* while a live session is set up or runs, the session's task ends and an
\* 'error' message is broadcast to the connected clients.
C27_FailureBroadcast ==
    obs.op \in {"live_failed", "live_ended"}
        => /\ tasks[obs.sid].state = "done"
           /\ "error" \in Range(obs.broadcast)

----------------------------------------------------------------------------
(* _iou on boxes of positive width and height with integer corners          *)

IouCoord == 3           \* the largest coordinate of a corner

IouBoxes ==
    {b \in (0..IouCoord) \X (0..IouCoord) \X (0..IouCoord) \X (0..IouCoord) :
        b[1] < b[3] /\ b[2] < b[4]}

\* the call on the two boxes drawn
Iou ==
    /\ out.op = "boxes"
    /\ out' = [op |-> "_iou", bbox1 |-> out.bbox1, bbox2 |-> out.bbox2,
               ret |-> _iou(out.bbox1, out.bbox2)]
    /\ UNCHANGED <<manager_vars, server_vars, tracker_vars, overcrowding_vars,
                   loitering_vars, zone_vars, alert_vars>>

InitIou ==
    /\ TrackerUnused
    /\ OvercrowdingUnused
    /\ LoiteringUnused
    /\ ZonesUnused
    /\ AlertsUnused
    /\ ServerUnused
    /\ ManagerUnused
    /\ out \in [op : {"boxes"}, bbox1 : IouBoxes, bbox2 : IouBoxes]

NextIou == Iou

SpecIou == InitIou /\ [][NextIou]_vars

\* C28: for every box a of positive width and height _iou(a, a) is 1, and
\* for every two such boxes 0 <= _iou(a, b) <= 1.
C28_IouOfItselfIsOne ==
    out.op = "_iou"
        => /\ out.bbox1 = out.bbox2 => out.ret = IouScale
           /\ 0 <= out.ret /\ out.ret <= IouScale

\* C28, as the code has it: _iou(a, a) is area / (area + 1e-6), below 1 and
\* no less than 0.999 for a box of at least a thousandth of a square pixel,
\* and for every two boxes of positive width and height 0 <= _iou(a, b) < 1.
C28_IouBelowOne ==
    out.op = "_iou"
        => /\ out.bbox1 = out.bbox2 => out.ret = IouScale - 1
           /\ 0 <= out.ret /\ out.ret < IouScale

\* a box against itself
C28_Witness ==
    /\ out.op = "_iou"
    /\ out.bbox1 = out.bbox2
    /\ out.ret = IouScale - 1

----------------------------------------------------------------------------
(* The MJPEG endpoint.  frame_gen is a coroutine of its own: between two of *)
(* its iterations it sleeps, and any other ready coroutine may run.         *)

MjpegSessions == 2      \* live sessions started
MjpegFrames == 2        \* frames the tracker is given, over all sessions

\* a live stream is active: the task of some live session has not ended
\* (a task that was cancelled is counted until its handler has run)
LiveActive ==
    \E sid \in DOMAIN tasks : tasks[sid].kind = "live" /\ tasks[sid].state # "done"

\* mjpeg_stream, one iteration of frame_gen: the bytes it yields
MjpegFrame ==
    /\ ~UploadBusy
    /\ obs' = [op |-> "mjpeg",
               frame_bytes |-> IF last_live_jpeg = None THEN <<"placeholder">>
                               ELSE last_live_jpeg,
               active |-> LiveActive]
    /\ UNCHANGED <<manager_vars, suspicious, tasks, live_task, live_source, last_live_jpeg, out>>
    /\ UNCHANGED <<tracker_vars, overcrowding_vars, loitering_vars, zone_vars, alert_vars>>

NextMjpeg ==
    \/ StartStream(MjpegSessions, {EmptyConfig})
    \/ StopStream
    \/ LiveTaskBegin
    \/ LiveFrame(MjpegFrames)
    \/ LiveDetectionFails
    \/ LiveStreamEnds
    \/ LiveCancelled
    \/ MjpegFrame

SpecMjpeg == InitServer /\ [][NextMjpeg]_vars

\* C29: whenever no live stream is active (none was started, the last one
\* was stopped, ended by itself or failed) the MJPEG endpoint yields the
\* placeholder frame, never a frame of an earlier stream.
C29_PlaceholderWhenIdle ==
    (obs.op = "mjpeg" /\ ~obs.active) => obs.frame_bytes = <<"placeholder">>

----------------------------------------------------------------------------
(* The hit streak of a track                                                *)

\* C30: a live track that was not matched on the frame before (its
\* time_since_update is above 0) has its hit_streak set to 0 by the predict()
\* of the next frame, so that a match on that frame leaves it at 1; a track
\* that was matched keeps its streak through predict() and has it raised by
\* one on a match.  A track reported after the startup window (frame_count >
\* min_hits) therefore has min_hits matches in a row behind it since its
\* last miss; and hit_streak never exceeds hits.
C30_StreakRestarts ==
    /\ [](\A k \in DOMAIN trackers : trackers[k].hit_streak <= trackers[k].hits)
    /\ []((out.op = "update" /\ frame_count > min_hits) =>
            \A j \in DOMAIN out.ret :
                TrackOf(trackers, out.ret[j]).hit_streak >= min_hits)
    /\ [][\A k \in DOMAIN trackers :
            LET t == trackers[k] IN
            t.id \in Ids(trackers') =>
                TrackOf(trackers', t.id).hit_streak =
                    (IF t.time_since_update > 0 THEN 0 ELSE t.hit_streak)
                    + (IF t.id \in out'.matched THEN 1 ELSE 0)]_vars

\* after the startup window, a track that was matched before, missed a frame
\* and is matched again has a streak of 1 and is not reported
C30_Witness ==
    /\ out.op = "update"
    /\ frame_count > min_hits
    /\ \E k \in DOMAIN trackers :
          /\ trackers[k].hits >= 2
          /\ trackers[k].hit_streak = 1
          /\ trackers[k].id \in out.matched
          /\ trackers[k].id \notin Range(out.ret)

----------------------------------------------------------------------------
(* A track that never misses a frame                                        *)

\* C31: a track that has been matched on every frame since it was created
\* (it has as many hits as predictions) and that update reported on one
\* frame is reported on the next frame as well, also when the startup window
\* frame_count <= min_hits ends in between.
C31_ReportedStays ==
    [][out.op = "update" =>
          \A k \in DOMAIN trackers' :
              (/\ trackers'[k].hits = trackers'[k].age
               /\ trackers'[k].id \in Range(out.ret))
                  => trackers'[k].id \in Range(out'.ret)]_vars

----------------------------------------------------------------------------
(* The three outputs of the association                                     *)

\* how often x is the c-th component of a row of pairs, or an entry of rest
Occurrences(pairs, c, rest, x) ==
    Cardinality({k \in DOMAIN pairs : pairs[k][c] = x})
        + Cardinality({k \in DOMAIN rest : rest[k] = x})

\* C32: for every IOU matrix, every detection index occurs exactly once in
\* the matched pairs and the unmatched detections taken together, and every
\* track index exactly once in the matched pairs and the unmatched tracks
\* taken together; so no index is in two matched pairs.
C32_OutputsPartition ==
    out.op = "associate" =>
        /\ \A d \in 1..out.D :
              Occurrences(out.ret.matches, 1, out.ret.unmatched_detections, d) = 1
        /\ \A t \in 1..out.T :
              Occurrences(out.ret.matches, 2, out.ret.unmatched_trackers, t) = 1
        /\ \A k \in DOMAIN out.ret.matches :
              /\ out.ret.matches[k][1] \in 1..out.D
              /\ out.ret.matches[k][2] \in 1..out.T
        /\ Range(out.ret.unmatched_detections) \subseteq 1..out.D
        /\ Range(out.ret.unmatched_trackers) \subseteq 1..out.T

\* two detections and two tracks: the assignment matched both, one pair was
\* kept and one was rejected for its IOU
C32_Witness ==
    /\ out.op = "associate"
    /\ out.D = 2 /\ out.T = 2
    /\ Len(out.matched_indices) = 2
    /\ Len(out.ret.matches) = 1
    /\ Len(out.ret.unmatched_detections) = 1

----------------------------------------------------------------------------
(* The rows of predicted boxes and the live list, after the drop step       *)

\* the index in ts of the tracker with this id
IndexOf(ts, id) == CHOOSE k \in DOMAIN ts : ts[k].id = id

\* C33: on every update, whatever predictions are finite, hold a NaN or hold
\* an infinity, the rows of predicted boxes given to the association are as
\* many as the trackers left in the live list by the drop step, and row i is
\* the prediction of the i-th of them; so a matched track index is an index
\* of the live list and names the tracker whose predicted box was matched.
C33_RowsAligned ==
    [][\A detections \in DetLists :
          \A pos \in [1..Len(trackers) -> Predictions] :
             UpdateWith(detections, pos) =>
                LET live == PredictAndPop(trackers, pos)
                    trks == CompressRows(pos)
                IN  /\ Len(trks) = Len(live)
                    /\ \A i \in DOMAIN trks :
                          /\ pos[IndexOf(trackers, live[i].id)].kind = "fin"
                          /\ trks[i] = pos[IndexOf(trackers, live[i].id)].box]_vars

----------------------------------------------------------------------------
(* The fast path against the assignment path                                *)

\* the three outputs as sets
AsSets(r) ==
    <<Range(r.matches), Range(r.unmatched_detections), Range(r.unmatched_trackers)>>

\* what the assignment path returns for the matrix: an assignment of the
\* greatest total IOU, then the low-IOU filter
AssignmentPath(iou, D, T) ==
    {AsSets(AssociateWith(iou, D, T, PairSeq(S))) : S \in _linear_assignment(iou, D, T)}

\* C34: when the matrix "IOU > iou_threshold" has one set bit in every row
\* and column that has any, so that the fast path is taken, the matches, the
\* unmatched detections and the unmatched tracks returned are those that
\* the assignment path returns for the same IOU matrix.
C34_FastPathIsOptimal ==
    (/\ out.op = "associate"
     /\ out.T > 0 /\ out.D > 0
     /\ FastPath(SetBits(out.iou, out.D, out.T), out.D, out.T))
        => AsSets(out.ret) \in AssignmentPath(Tup(out.iou), out.D, out.T)

----------------------------------------------------------------------------
(* A broadcast of the live stream while clients come and go.  The live loop *)
(* awaits manager.broadcast outside any inner try statement, for one in     *)
(* send_detection_update; while a send is suspended the websocket endpoint  *)
(* of another client runs connect or disconnect.                            *)

\* some live task is in its loop
LiveRunning ==
    \E sid \in DOMAIN tasks : tasks[sid].kind = "live" /\ tasks[sid].state = "running"

\* _run_live_stream, "await send_detection_update(...)": the broadcast starts
LiveBroadcastBegin ==
    /\ LiveRunning
    /\ BroadcastBegin

\* the for statement of broadcast finds that the set has changed its size:
\* the RuntimeError leaves broadcast and reaches "except Exception as e:" of
\* _run_live_stream, which broadcasts the error and returns
LiveBroadcastRaises ==
    /\ Iterating
    /\ SizeChanged
    /\ broadcast' = [broadcast EXCEPT !.state = "raised"]
    /\ \E sid \in DOMAIN tasks :
         /\ tasks[sid].kind = "live"
         /\ tasks[sid].state = "running"
         /\ tasks' = [tasks EXCEPT ![sid].state = "done"]
         /\ obs' = [op |-> "live_failed", sid |-> sid, at |-> "broadcast",
                    broadcast |-> <<"error">>]
    /\ UNCHANGED <<active_connections, accepted>>
    /\ UNCHANGED <<suspicious, live_task, live_source, last_live_jpeg, out>>
    /\ UNCHANGED <<tracker_vars, overcrowding_vars, loitering_vars, zone_vars, alert_vars>>

NextChurn ==
    \/ StartStream(1, {EmptyConfig})
    \/ LiveTaskBegin
    \/ Connect
    \/ Disconnect
    \/ LiveBroadcastBegin
    \/ BroadcastSend
    \/ LiveBroadcastRaises
    \/ BroadcastEnd

SpecChurn == InitServer /\ [][NextChurn]_vars

\* C35: when a client connects or disconnects while a broadcast of the live
\* stream is suspended in a send, the broadcast does not raise and the task
\* of the live stream goes on: no order of connect, disconnect and broadcast
\* steps ends the live session.
C35_BroadcastSurvivesChurn ==
    /\ broadcast.state # "raised"
    /\ \A sid \in DOMAIN tasks : tasks[sid].state # "done"

----------------------------------------------------------------------------
(* The live task under start_stream and stop_stream commands.  A command is *)
(* handled without an await between cancel() and create_task(), so the      *)
(* commands of several clients are handled one after the other.             *)

\* the live tasks that were not cancelled and have not ended
Uncancelled ==
    {sid \in DOMAIN tasks : /\ tasks[sid].kind = "live"
                            /\ ~tasks[sid].cancelled
                            /\ tasks[sid].state # "done"}

\* C36: whatever start_stream and stop_stream commands were handled, at most
\* one live task that was not cancelled exists, and it is the one live_task
\* names; after stop_stream there is none and live_source is None.
C36_OneLiveTask ==
    /\ Cardinality(Uncancelled) <= 1
    /\ \A sid \in Uncancelled : live_task = Some(sid)
    /\ obs.op = "stop_stream" =>
          /\ Uncancelled = {}
          /\ live_task = None
          /\ live_source = None

\* a start_stream has superseded a task that was in its loop: the earlier
\* task is cancelled and has not yet ended, the new one is the only one
\* that is not cancelled
C36_Witness ==
    /\ obs.op = "start_stream"
    /\ \E sid \in DOMAIN tasks : tasks[sid].state = "cancelling"
    /\ Uncancelled = {obs.sid}

----------------------------------------------------------------------------
(* The status reply                                                         *)

\* websocket_endpoint, command get_status: 'live_running': bool(live_task),
\* and a task object is true whether it has ended or not
GetStatus ==
    /\ ~UploadBusy
    /\ obs' = [op |-> "status",
               live_running |-> live_task # None,
               live_source |-> live_source,
               active |-> LiveActive,
               running |-> LiveRunning]
    /\ UNCHANGED <<manager_vars, suspicious, tasks, live_task, live_source, last_live_jpeg, out>>
    /\ UNCHANGED <<tracker_vars, overcrowding_vars, loitering_vars, zone_vars, alert_vars>>

NextStatus ==
    \/ StartStream(MjpegSessions, {EmptyConfig})
    \/ StopStream
    \/ LiveTaskBegin
    \/ LiveFrame(MjpegFrames)
    \/ LiveDetectionFails
    \/ LiveStreamEnds
    \/ LiveCancelled
    \/ GetStatus

SpecStatus == InitServer /\ [][NextStatus]_vars

\* C37: live_running of the status reply is true while a live task is in
\* its loop, and false when no live task is left that has not ended: after
\* stop_stream, after the stream has ended by itself and after it has failed.
C37_LiveRunningIsTrue ==
    obs.op = "status" =>
        /\ obs.running => obs.live_running
        /\ obs.live_running => obs.active

----------------------------------------------------------------------------
(* The histories after the cleanup of a frame                               *)

\* C38: after every processed frame, of an upload or of the live stream, the
\* loitering history and the pose history hold entries only for the tracks
\* that the tracker reported on that frame, and loitering_tracks and
\* suspicious_tracks hold only such tracks; so a track that was absent from
\* the output of one frame has, on the frame that reports it again, a
\* history of one entry and had no edge state left before it.
C38_HistoriesOfReported ==
    /\ [](out.op = "update" =>
            /\ DOMAIN loitering.track_history \subseteq Range(out.ret)
            /\ DOMAIN suspicious.pose_history \subseteq Range(out.ret)
            /\ loitering.loitering_tracks \subseteq Range(out.ret)
            /\ suspicious.suspicious_tracks \subseteq Range(out.ret))
    /\ [][(out.op = "update" /\ frame_count' = frame_count + 1) =>
            \A id \in Range(out'.ret) \ Range(out.ret) :
                /\ Len(loitering'.track_history[id]) = 1
                /\ PoseLen(suspicious', id) <= 1
                /\ id \notin loitering.loitering_tracks
                /\ id \notin suspicious.suspicious_tracks]_vars

\* after a frame, a live track that was matched on the frame before and is
\* not reported on this one has no history left
C38_Witness ==
    /\ obs.op \in {"live_frame", "upload_frame"}
    /\ out.op = "update"
    /\ \E k \in DOMAIN trackers :
          /\ trackers[k].time_since_update = 1
          /\ trackers[k].id \notin Range(out.ret)
          /\ trackers[k].id \notin DOMAIN loitering.track_history
          /\ trackers[k].id \notin DOMAIN suspicious.pose_history

\* a track that was absent from one frame is reported again and starts anew
C38_WitnessRestart ==
    /\ obs.op \in {"live_frame", "upload_frame"}
    /\ \E k \in DOMAIN trackers :
          /\ trackers[k].hits >= 1
          /\ trackers[k].age >= 2
          /\ trackers[k].hits < trackers[k].age
          /\ trackers[k].id \in Range(out.ret)
          /\ Len(loitering.track_history[trackers[k].id]) = 1



----------------------------------------------------------------------------
(* The severity of a crowd: update_config stores an overcrowding threshold, *)
(* 0 as any other integer, and a frame then counts some people.             *)

MaxCount == 12          \* people counted on a frame
MaxThreshold == 10      \* configured thresholds, from 0

SeverityConfigs ==
    { [EmptyConfig EXCEPT !.overcrowding_threshold = Some(n)] :
          n \in 0..MaxThreshold }

\* _calculate_severity(count, threshold): "count / threshold" is evaluated
\* once count > threshold and raises when the threshold is 0; the ratio is
\* compared in tenths
_calculate_severity(cnt, threshold) ==
    IF cnt <= threshold THEN "none"
    ELSE IF threshold = 0 THEN "ZeroDivisionError"
    ELSE IF 10 * cnt <= 12 * threshold THEN "low"
    ELSE IF 10 * cnt <= 15 * threshold THEN "medium"
    ELSE "high"

\* the dictionary detect_overcrowding(cnt) builds, or the exception that
\* building it raises
SeverityResult(self, cnt) ==
    LET r == detect_overcrowding(self, cnt, None)
        severity == _calculate_severity(cnt, r.threshold)
    IN  [op |-> "overcrowd_result",
         count |-> cnt,
         configured |-> self.threshold,
         raised |-> severity = "ZeroDivisionError",
         ret |-> IF severity = "ZeroDivisionError" THEN None
                 ELSE Some([is_overcrowded |-> r.is_overcrowded,
                            current_count |-> r.current_count,
                            threshold |-> r.threshold,
                            alert_triggered |-> r.alert_triggered,
                            severity |-> severity])]

\* overcrowding.detect_overcrowding(count) of a frame: alert_active is
\* stored before the dictionary is built
OvercrowdResult ==
    /\ \E cnt \in 0..MaxCount :
         /\ out' = SeverityResult(overcrowding, cnt)
         /\ overcrowding' = [overcrowding EXCEPT !.alert_active =
                                 cnt > overcrowding.threshold]
    /\ UNCHANGED <<tracker_vars, oc_calls, loitering_vars, zone_vars, alert_vars>>
    /\ UNCHANGED <<server_vars, manager_vars>>

NextSeverity ==
    \/ UpdateConfig(SeverityConfigs)
    \/ OvercrowdResult

SpecSeverity == InitServer /\ [][NextSeverity]_vars

\* C39: detect_overcrowding returns its dictionary and raises nothing for
\* every count >= 0 and every threshold >= 0 a configuration message can
\* store; the severity is "none" exactly when is_overcrowded is false, and
\* otherwise "low" up to a ratio count/threshold of 1.2, "medium" up to 1.5
\* and "high" above.
C39_SeverityWithoutRaising ==
    (out.op = "overcrowd_result" /\ out.count >= 0 /\ out.configured >= 0)
        => /\ ~out.raised
           /\ (Val(out.ret).severity = "none") <=> ~Val(out.ret).is_overcrowded
           /\ Val(out.ret).is_overcrowded
                 => Val(out.ret).severity =
                        IF 10 * out.count <= 12 * out.configured THEN "low"
                        ELSE IF 10 * out.count <= 15 * out.configured THEN "medium"
                        ELSE "high"

\* the same with the threshold 0 left out: for every positive threshold the
\* dictionary is returned and the severity is as stated
SeverityAbovePositiveThreshold ==
    (out.op = "overcrowd_result" /\ out.configured > 0)
        => /\ ~out.raised
           /\ (Val(out.ret).severity = "none") <=> ~Val(out.ret).is_overcrowded
           /\ Val(out.ret).is_overcrowded
                 => Val(out.ret).severity \in {"low", "medium", "high"}

====
